---- MODULE Spec2Model ----
(***************************************************************************)
(* Node-group provisioning of pulumi-eks (nodejs/eks/nodegroup.ts).        *)
(*                                                                         *)
(* A provisioning call runs its synchronous body in one turn: it checks    *)
(* the options, registers deferred computations (apply callbacks) and      *)
(* registers resources with the deployment engine.  Afterwards the engine  *)
(* runs the callbacks and creates each registered resource once everything *)
(* the resource consumes is available.                                     *)
(*                                                                         *)
(* The subnet classifier (computeWorkerSubnets) is modelled step by step,  *)
(* one awaited lookup per action.                                          *)
(***************************************************************************)
EXTENDS Integers, Sequences, FiniteSets, TLC

\* ------------------------------------------------------------------------
\* Values
\* ------------------------------------------------------------------------

\* JavaScript undefined for object-valued and string-valued options.
Undef == "undefined"
\* JavaScript undefined for number-valued options.
UndefNum == -1
\* No error raised.
NoError == "none"

\* Bounds of the model.
\* At most this many settings of the cluster core and of the node-group
\* options together differ from "not supplied".
MaxSetOptions == 3
\* The longest list of candidate subnets handed to computeWorkerSubnets.
MaxSubnets == 2

\* ------------------------------------------------------------------------
\* NodeGroupOptions / ManagedNodeGroupOptions
\* ------------------------------------------------------------------------

\* The option values that differ from "not supplied", per option, in the
\* order of the record built by MkArgs.  Options that the provisioners only
\* test for truthiness are booleans (TRUE = a truthy value was supplied).
ArgChoices ==
    << {TRUE},                \* instanceProfile
       {"sgA", "sgB"},        \* nodeSecurityGroup
       {"ruleA"},             \* clusterIngressRule
       {TRUE},                \* nodePublicKey
       {TRUE},                \* keyName
       {TRUE},                \* amiId
       {TRUE},                \* gpu
       {TRUE},                \* nodeUserDataOverride
       {TRUE},                \* nodeUserData
       {TRUE},                \* labels
       {TRUE},                \* taints
       {TRUE},                \* kubeletExtraArgs
       {TRUE},                \* bootstrapExtraArgs
       {0, 100},              \* nodeRootVolumeIops
       {"gp2", "io1", "gp3"}, \* nodeRootVolumeType
       {0, 125},              \* nodeRootVolumeThroughput
       {TRUE} >>              \* nodeSubnetIds

ArgDefaults ==
    << FALSE, Undef, Undef, FALSE, FALSE, FALSE, FALSE, FALSE, FALSE, FALSE,
       FALSE, FALSE, FALSE, UndefNum, Undef, UndefNum, FALSE >>

\* All value tuples that supply at most `budget` of the options i..Len.
RECURSIVE Tuples(_, _, _, _)
Tuples(choices, defaults, i, budget) ==
    IF i > Len(choices) THEN { << >> }
    ELSE { <<defaults[i]>> \o r : r \in Tuples(choices, defaults, i + 1, budget) }
         \cup
         ( IF budget = 0 THEN {}
           ELSE UNION { { <<v>> \o r : r \in Tuples(choices, defaults, i + 1, budget - 1) }
                        : v \in choices[i] } )

MkArgs(t, role, roleArn) ==
    [ instanceProfile          |-> t[1],
      nodeSecurityGroup        |-> t[2],
      clusterIngressRule       |-> t[3],
      nodePublicKey            |-> t[4],
      keyName                  |-> t[5],
      amiId                    |-> t[6],
      gpu                      |-> t[7],
      nodeUserDataOverride     |-> t[8],
      nodeUserData             |-> t[9],
      labels                   |-> t[10],
      taints                   |-> t[11],
      kubeletExtraArgs         |-> t[12],
      bootstrapExtraArgs       |-> t[13],
      nodeRootVolumeIops       |-> t[14],
      nodeRootVolumeType       |-> t[15],
      nodeRootVolumeThroughput |-> t[16],
      nodeSubnetIds            |-> t[17],
      subnetIds                |-> FALSE,
      nodeRole                 |-> role,
      nodeRoleArn              |-> roleArn ]

NoArgs == MkArgs(ArgDefaults, Undef, Undef)

\* The ARN of an IAM role object.
RoleArnOf(role) == IF role = "roleA" THEN "arnA" ELSE "arnB"

\* Option sets handed to createManagedNodeGroup.
ManagedNodeGroupOptions ==
    { [ MkArgs(ArgDefaults, role, arn) EXCEPT !.subnetIds = given ] :
        role \in {Undef, "roleA", "roleB"}, arn \in {Undef, "arnA", "arnB"},
        given \in BOOLEAN }

\* ------------------------------------------------------------------------
\* CoreData
\* ------------------------------------------------------------------------

CoreChoices ==
    << {FALSE},                                \* nodeGroupOptions.instanceProfile
       {"sgA"},                                \* nodeGroupOptions.nodeSecurityGroup
       {TRUE},                                 \* nodeSecurityGroupTags
       {TRUE},                                 \* vpcCni
       {TRUE},                                 \* eksNodeAccess
       {TRUE},                                 \* privateSubnetIds
       {TRUE},                                 \* publicSubnetIds
       {{"roleA"}, {"roleB"}, {"roleA", "roleB"}},  \* instanceRoles
       {FALSE} >>                              \* subnetIds

CoreDefaults == << TRUE, Undef, FALSE, FALSE, FALSE, FALSE, FALSE, {}, TRUE >>

MkCore(t) ==
    [ instanceProfile       |-> t[1],
      nodeSecurityGroup     |-> t[2],
      nodeSecurityGroupTags |-> t[3],
      vpcCni                |-> t[4],
      eksNodeAccess         |-> t[5],
      privateSubnetIds      |-> t[6],
      publicSubnetIds       |-> t[7],
      instanceRoles         |-> t[8],
      subnetIds             |-> t[9],
      version               |-> "1.20" ]

\* A cluster core together with the options of a self-managed node group.
Configs ==
    { [ core |-> MkCore(SubSeq(t, 1, Len(CoreChoices))),
        args |-> MkArgs(SubSeq(t, Len(CoreChoices) + 1, Len(t)), Undef, Undef) ] :
      t \in Tuples(CoreChoices \o ArgChoices, CoreDefaults \o ArgDefaults, 1, MaxSetOptions) }

CoreData == { cfg.core : cfg \in Configs }

\* Option sets handed to createNodeGroup / createNodeGroupV2 for a core.
NodeGroupOptions(c) == { cfg.args : cfg \in { x \in Configs : x.core = c } }

\* ------------------------------------------------------------------------
\* Option Validator: the checks of createNodeGroupInternal
\* ------------------------------------------------------------------------

\* JavaScript truthiness of an optional number: undefined and 0 are falsy.
Truthy(n) == n # UndefNum /\ n # 0

DigitChar(d) == << "0", "1", "2", "3", "4", "5", "6", "7", "8", "9" >>[d + 1]

\* Number.prototype.toString for a non-negative integer, as a sequence of
\* characters.
RECURSIVE toString(_)
toString(n) == IF n < 10 THEN << DigitChar(n) >>
               ELSE toString(n \div 10) \o << DigitChar(n % 10) >>

\* numeric.test(s) for numeric = new RegExp("^\d+$"): the pattern is given
\* as a string literal, in which "\d" is the letter d, so the expression is
\* /^d+$/ and matches the non-empty strings made of the letter d only.
numeric(s) == Len(s) > 0 /\ \A i \in 1..Len(s) : s[i] = "d"

\* The check never finds the instance profile missing.
instanceProfileNeverMissing(a, c) == FALSE

instanceProfileMissing(a, c) == ~a.instanceProfile /\ ~c.instanceProfile

\* return args.instanceProfile ?? c.nodeGroupOptions.instanceProfile!
instanceProfile(a, c) ==
    IF a.instanceProfile THEN "args.instanceProfile"
    ELSE "core.nodeGroupOptions.instanceProfile"

nodeSecurityGroupTagsConflict(a, c) ==
    /\ c.nodeSecurityGroup # Undef /\ a.nodeSecurityGroup # Undef
    /\ c.nodeSecurityGroupTags
    /\ c.nodeSecurityGroup # a.nodeSecurityGroup

\* The two keys conflict only when no AMI is named.
keyConflictWithoutAmi(a) == a.nodePublicKey /\ a.keyName /\ ~a.amiId

keyConflict(a) == a.nodePublicKey /\ a.keyName

amiGpuConflict(a) == a.amiId /\ a.gpu

\* Labels are not among the options the override excludes.
userDataOverrideConflictLabelsAllowed(a) ==
    a.nodeUserDataOverride /\
      (a.nodeUserData \/ a.taints \/ a.kubeletExtraArgs \/ a.bootstrapExtraArgs)

userDataOverrideConflict(a) ==
    a.nodeUserDataOverride /\
      (a.nodeUserData \/ a.labels \/ a.taints \/ a.kubeletExtraArgs \/ a.bootstrapExtraArgs)

\* A security group is accepted without its ingress rule.
clusterIngressRuleNeverMissing(a) == FALSE

clusterIngressRuleMissing(a) ==
    a.nodeSecurityGroup # Undef /\ a.clusterIngressRule = Undef

\* Only a volume type that was given is compared with io1.
iopsNonIo1GivenType(a) ==
    Truthy(a.nodeRootVolumeIops) /\ a.nodeRootVolumeType # Undef /\ a.nodeRootVolumeType # "io1"

iopsNonIo1(a) == Truthy(a.nodeRootVolumeIops) /\ a.nodeRootVolumeType # "io1"

iopsNotInteger(a) ==
    /\ a.nodeRootVolumeType = "io1" /\ Truthy(a.nodeRootVolumeIops)
    /\ ~numeric(toString(a.nodeRootVolumeIops))

throughputNonGp3(a) ==
    Truthy(a.nodeRootVolumeThroughput) /\ a.nodeRootVolumeType # "gp3"

throughputNotInteger(a) ==
    /\ a.nodeRootVolumeType = "gp3" /\ Truthy(a.nodeRootVolumeThroughput)
    /\ ~numeric(toString(a.nodeRootVolumeThroughput))

\* ------------------------------------------------------------------------
\* Option Validator: the checks of createNodeGroupV2Internal
\* ------------------------------------------------------------------------

instanceProfileMissingV2(a, c) == ~a.instanceProfile /\ ~c.instanceProfile

\* return args.instanceProfile?.arn ?? c.nodeGroupOptions.instanceProfile!.arn
instanceProfileArn(a, c) ==
    IF a.instanceProfile THEN "args.instanceProfile.arn"
    ELSE "core.nodeGroupOptions.instanceProfile.arn"

nodeSecurityGroupTagsConflictV2(a, c) ==
    /\ c.nodeSecurityGroup # Undef /\ a.nodeSecurityGroup # Undef
    /\ c.nodeSecurityGroupTags
    /\ c.nodeSecurityGroup # a.nodeSecurityGroup

keyConflictV2(a) == a.nodePublicKey /\ a.keyName

amiGpuConflictV2(a) == a.amiId /\ a.gpu

userDataOverrideConflictV2(a) ==
    a.nodeUserDataOverride /\
      (a.nodeUserData \/ a.labels \/ a.taints \/ a.kubeletExtraArgs \/ a.bootstrapExtraArgs)

clusterIngressRuleMissingV2(a) ==
    a.nodeSecurityGroup # Undef /\ a.clusterIngressRule = Undef

iopsNonIo1V2(a) == Truthy(a.nodeRootVolumeIops) /\ a.nodeRootVolumeType # "io1"

iopsNotIntegerV2(a) ==
    /\ a.nodeRootVolumeType = "io1" /\ Truthy(a.nodeRootVolumeIops)
    /\ ~numeric(toString(a.nodeRootVolumeIops))

throughputNonGp3V2(a) ==
    Truthy(a.nodeRootVolumeThroughput) /\ a.nodeRootVolumeType # "gp3"

throughputNotIntegerV2(a) ==
    /\ a.nodeRootVolumeType = "gp3" /\ Truthy(a.nodeRootVolumeThroughput)
    /\ ~numeric(toString(a.nodeRootVolumeThroughput))

\* ------------------------------------------------------------------------
\* Option Validator: the checks of createManagedNodeGroupInternal
\* ------------------------------------------------------------------------

roleMissing(a) == a.nodeRole = Undef /\ a.nodeRoleArn = Undef

roleConflict(a) == a.nodeRole # Undef /\ a.nodeRoleArn # Undef

\* The supplied ARN, else the ARN of the first role.
roleArnOfFirstRole(a) == IF a.nodeRoleArn # Undef THEN a.nodeRoleArn ELSE RoleArnOf("roleA")

\* let roleArn: the supplied ARN, else the ARN of the supplied role.
roleArn(a) == IF a.nodeRoleArn # Undef THEN a.nodeRoleArn ELSE RoleArnOf(a.nodeRole)

\* arns.find(a => a === arn) over the ARNs of core.instanceRoles.
nodegroupRole(a, c) ==
    LET roleArns == { RoleArnOf(role) : role \in c.instanceRoles }
    IN  IF roleArn(a) \in roleArns THEN roleArn(a) ELSE Undef

\* ------------------------------------------------------------------------
\* The synchronous body of a provisioning call, as the sequence of its steps
\* ------------------------------------------------------------------------

\* A step either throws (ending the call), registers an apply callback
\* (aps), produces an output that is available at once (vals), binds the
\* security-group pair (pair), or registers resources (reg), handing them
\* property values (ins).
NoStep ==
    [ throws |-> FALSE, err |-> NoError, reg |-> {}, aps |-> {}, vals |-> {}, pair |-> << >>,
      ins |-> {} ]

Check(cond, err) == [ NoStep EXCEPT !.throws = cond, !.err = err ]
Defer(ap)        == [ NoStep EXCEPT !.aps = {ap} ]
Given(ap, in)    == [ NoStep EXCEPT !.vals = {ap}, !.ins = in ]
Register(rs)     == [ NoStep EXCEPT !.reg = rs ]
Bind(p, rs)      == [ NoStep EXCEPT !.pair = p, !.reg = rs ]
Construct(r, in) == [ NoStep EXCEPT !.reg = {r}, !.ins = in ]

\* createNodeGroupSecurityGroup: a new worker security group and the ingress
\* rule that lets the control plane reach it.
createNodeGroupSecurityGroup == << "nodeSecurityGroup", "eksClusterIngressRule" >>

createNodeGroupInternal(a) ==
    << Defer("instanceProfile"),
       Defer("nodeSecurityGroupCheck"),
       Check(keyConflict(a), "KeyConflict"),
       Check(amiGpuConflict(a), "AmiGpuConflict"),
       Check(userDataOverrideConflict(a), "UserDataOverrideConflict"),
       Defer("cfnStackDeps"),
       Check(clusterIngressRuleMissing(a), "ClusterIngressRuleRequired"),
       IF a.nodeSecurityGroup # Undef
         THEN Bind(<< a.nodeSecurityGroup, a.clusterIngressRule >>, {})
         ELSE Bind(createNodeGroupSecurityGroup,
                   { createNodeGroupSecurityGroup[1], createNodeGroupSecurityGroup[2] }),
       Register(IF a.nodePublicKey THEN {"keyPair"} ELSE {}),
       Register({"cfnStackName"}),
       Defer("userdata"),
       Check(iopsNonIo1(a), "IopsNonIo1"),
       Check(iopsNotInteger(a), "IopsNotInteger"),
       Check(throughputNonGp3(a), "ThroughputNonGp3"),
       Check(throughputNotInteger(a), "ThroughputNotInteger"),
       Register({"nodeLaunchConfiguration"}),
       IF a.nodeSubnetIds
         THEN Given("workerSubnetIds", { << "VPCZoneIdentifier", "nodeSubnetIds" >> })
         ELSE Defer("workerSubnetIds"),
       Register({"cfnStack"}) >>

createNodeGroupV2Internal(a) ==
    << Defer("instanceProfile"),
       Defer("nodeSecurityGroupCheck"),
       Check(keyConflictV2(a), "KeyConflict"),
       Check(amiGpuConflictV2(a), "AmiGpuConflict"),
       Check(userDataOverrideConflictV2(a), "UserDataOverrideConflict"),
       Defer("nodeGroupDeps"),
       Check(clusterIngressRuleMissingV2(a), "ClusterIngressRuleRequired"),
       IF a.nodeSecurityGroup # Undef
         THEN Bind(<< a.nodeSecurityGroup, a.clusterIngressRule >>, {})
         ELSE Bind(createNodeGroupSecurityGroup,
                   { createNodeGroupSecurityGroup[1], createNodeGroupSecurityGroup[2] }),
       Register(IF a.nodePublicKey THEN {"keyPair"} ELSE {}),
       Defer("userdata"),
       Check(iopsNonIo1V2(a), "IopsNonIo1"),
       Check(iopsNotIntegerV2(a), "IopsNotInteger"),
       Check(throughputNonGp3V2(a), "ThroughputNonGp3"),
       Check(throughputNotIntegerV2(a), "ThroughputNotInteger"),
       Register({"nodeLaunchTemplate"}),
       IF a.nodeSubnetIds
         THEN Given("workerSubnetIds", { << "vpcZoneIdentifiers", "nodeSubnetIds" >> })
         ELSE Defer("workerSubnetIds"),
       Register({"asGroup"}) >>

createManagedNodeGroupInternal(a) ==
    << Check(roleMissing(a), "RoleRequired"),
       Check(roleConflict(a), "RoleConflict"),
       Defer("nodegroupRoleCheck"),
       IF a.subnetIds
         THEN Given("subnetIds", { << "subnetIds", "args.subnetIds" >> })
         ELSE Defer("subnetIds"),
       Defer("ngDeps"),
       Construct("nodeGroup", { << "nodeRoleArn", roleArn(a) >> }) >>

\* The index of the first step that throws, Len + 1 when none does.
FirstThrow(steps) ==
    IF \E i \in 1..Len(steps) : steps[i].throws
      THEN CHOOSE i \in 1..Len(steps) :
             steps[i].throws /\ \A j \in 1..(i - 1) : ~steps[j].throws
      ELSE Len(steps) + 1

\* The effect of running the steps up to the first throw.
Run(steps) ==
    LET k    == FirstThrow(steps)
        done == 1..(k - 1)
        bound == { i \in done : steps[i].pair # << >> }
    IN  [ error      |-> IF k <= Len(steps) THEN steps[k].err ELSE NoError,
          registered |-> UNION { steps[i].reg : i \in done },
          applies    |-> UNION { steps[i].aps : i \in done },
          values     |-> UNION { steps[i].vals : i \in done },
          inputs     |-> UNION { steps[i].ins : i \in done },
          pair       |-> IF bound = {} THEN << Undef, Undef >>
                         ELSE steps[CHOOSE i \in bound : \A j \in bound : j <= i].pair ]

\* ------------------------------------------------------------------------
\* Dependencies of the registered resources
\* ------------------------------------------------------------------------

\* The id of the security group alone, not waiting for the ingress rule.
nodeSecurityGroupIdGroupOnly(p) == { p[1] }

\* nodeSecurityGroupId = pulumi.all([nodeSecurityGroup.id,
\* eksClusterIngressRule.id]): the resources whose ids it awaits.
nodeSecurityGroupId(p) == { p[1], p[2] }

nodeSecurityGroupIdV2(p) == { p[1], p[2] }

\* The stack waits for the CNI only.
cfnStackDepsCniOnly(c) == IF c.vpcCni THEN {"vpcCni"} ELSE {}

cfnStackDeps(c) ==
    (IF c.vpcCni THEN {"vpcCni"} ELSE {}) \cup (IF c.eksNodeAccess THEN {"eksNodeAccess"} ELSE {})

nodeGroupDeps(c) ==
    (IF c.vpcCni THEN {"vpcCni"} ELSE {}) \cup (IF c.eksNodeAccess THEN {"eksNodeAccess"} ELSE {})

ngDeps(c) == IF c.eksNodeAccess THEN {"eksNodeAccess"} ELSE {}

\* The resources a registered resource waits on.
ResourceInputs(r, a, c, p) ==
    CASE r = "nodeSecurityGroup"       -> {}
      [] r = "eksClusterIngressRule"   -> {"nodeSecurityGroup"}
      [] r = "keyPair"                 -> {}
      [] r = "cfnStackName"            -> {}
      [] r = "nodeLaunchConfiguration" ->
            nodeSecurityGroupId(p)
            \cup (IF a.nodePublicKey THEN {"keyPair"} ELSE {})
            \cup (IF a.nodeUserDataOverride THEN {} ELSE {"cfnStackName"})
      [] r = "cfnStack"                ->
            {"nodeLaunchConfiguration", "cfnStackName"} \cup cfnStackDeps(c)
      [] r = "nodeLaunchTemplate"      ->
            nodeSecurityGroupIdV2(p) \cup (IF a.nodePublicKey THEN {"keyPair"} ELSE {})
      [] r = "asGroup"                 -> {"nodeLaunchTemplate"} \cup nodeGroupDeps(c)
      [] r = "nodeGroup"               ->
            ngDeps(c) \cup (IF a.nodeRole # Undef THEN {a.nodeRole} ELSE {})

\* The outputs of apply callbacks a registered resource consumes.
OutputInputs(r, a) ==
    CASE r = "nodeLaunchConfiguration" ->
            {"instanceProfile"} \cup (IF a.nodeUserDataOverride THEN {} ELSE {"userdata"})
      [] r = "cfnStack"                -> {"workerSubnetIds", "cfnStackDeps"}
      [] r = "nodeLaunchTemplate"      -> {"instanceProfile", "userdata"}
      [] r = "asGroup"                 -> {"workerSubnetIds", "nodeGroupDeps"}
      [] r = "nodeGroup"               -> {"subnetIds", "ngDeps"}
      [] OTHER                         -> {}

\* Resources made outside the call that the call refers to.
ExternalResources(a, c, p) ==
    ({ p[1], p[2] } \ { Undef, "nodeSecurityGroup", "eksClusterIngressRule" })
    \cup (IF c.vpcCni THEN {"vpcCni"} ELSE {})
    \cup (IF c.eksNodeAccess THEN {"eksNodeAccess"} ELSE {})
    \cup (IF a.nodeRole # Undef THEN {a.nodeRole} ELSE {})

\* ------------------------------------------------------------------------
\* Apply callbacks
\* ------------------------------------------------------------------------

\* The public subnets of the cluster are preferred to its private ones.
workerSubnetIdsPublicFirst(a, c) ==
    IF a.nodeSubnetIds THEN "nodeSubnetIds"
    ELSE IF c.publicSubnetIds THEN "publicSubnetIds"
    ELSE IF c.privateSubnetIds THEN "privateSubnetIds"
    ELSE "computeWorkerSubnets"

\* Where the worker subnets of a self-managed node group come from.
workerSubnetIds(a, c) ==
    IF a.nodeSubnetIds THEN "nodeSubnetIds"
    ELSE IF c.privateSubnetIds THEN "privateSubnetIds"
    ELSE IF c.publicSubnetIds THEN "publicSubnetIds"
    ELSE "computeWorkerSubnets"

workerSubnetIdsV2(a, c) ==
    IF a.nodeSubnetIds THEN "nodeSubnetIds"
    ELSE IF c.privateSubnetIds THEN "privateSubnetIds"
    ELSE IF c.publicSubnetIds THEN "publicSubnetIds"
    ELSE "computeWorkerSubnets"

\* The private subnets of the cluster are preferred to its general ones.
nodeGroupSubnetIdsPrivateFirst(a, c) ==
    IF a.subnetIds THEN "args.subnetIds"
    ELSE IF c.privateSubnetIds THEN "privateSubnetIds"
    ELSE IF c.subnetIds THEN "core.subnetIds"
    ELSE IF c.publicSubnetIds THEN "publicSubnetIds"
    ELSE "[]"

\* let subnetIds of createManagedNodeGroupInternal: where the subnets of a
\* managed node group come from.
nodeGroupSubnetIds(a, c) ==
    IF a.subnetIds THEN "args.subnetIds"
    ELSE IF c.subnetIds THEN "core.subnetIds"
    ELSE IF c.privateSubnetIds THEN "privateSubnetIds"
    ELSE IF c.publicSubnetIds THEN "publicSubnetIds"
    ELSE "[]"

\* The error an apply callback throws.
ApplyError(ap) ==
    CASE ap = "instanceProfile"        -> "InstanceProfileRequired"
      [] ap = "nodeSecurityGroupCheck" -> "NodeSecurityGroupTagsConflict"
      [] ap = "nodegroupRoleCheck"     -> "RoleNotInInstanceRoles"
      [] ap = "workerSubnetIds"        -> "LookupFailure"
      [] OTHER                         -> NoError

\* The state of the output of a callback registered on core, once core has
\* resolved and the callback has run.
ApplyOnCore(ap, knd, a, c) ==
    CASE ap = "instanceProfile" ->
            IF knd = "createNodeGroup"
              THEN (IF instanceProfileMissing(a, c) THEN "err" ELSE "ok")
              ELSE (IF instanceProfileMissingV2(a, c) THEN "err" ELSE "ok")
      [] ap = "nodeSecurityGroupCheck" ->
            IF knd = "createNodeGroup"
              THEN (IF nodeSecurityGroupTagsConflict(a, c) THEN "err" ELSE "ok")
              ELSE (IF nodeSecurityGroupTagsConflictV2(a, c) THEN "err" ELSE "ok")
      [] ap = "workerSubnetIds" ->
            IF knd = "createNodeGroup"
              THEN (IF workerSubnetIds(a, c) = "computeWorkerSubnets" THEN "computing" ELSE "ok")
              ELSE (IF workerSubnetIdsV2(a, c) = "computeWorkerSubnets" THEN "computing" ELSE "ok")
      [] ap = "nodegroupRoleCheck" -> "pending"
      [] ap = "userdata" -> "pending"
      [] OTHER -> "ok"

Applies ==
    { "instanceProfile", "nodeSecurityGroupCheck", "cfnStackDeps", "nodeGroupDeps",
      "ngDeps", "workerSubnetIds", "subnetIds", "nodegroupRoleCheck", "userdata" }

\* ------------------------------------------------------------------------
\* Subnet classifier: routes, route tables and CIDR blocks
\* ------------------------------------------------------------------------

\* An IPv4 CIDR block, abbreviated to the two leading octets of its address
\* (addr = 256 * first octet + second octet) and a prefix of at most 16 bits.
Cidr(o1, o2, bits) == [ addr |-> 256 * o1 + o2, bits |-> bits ]

RECURSIVE Pow2(_)
Pow2(n) == IF n = 0 THEN 1 ELSE 2 * Pow2(n - 1)

\* new netmask.Netmask(block): the first and the last address of the block.
Netmask(block) ==
    LET size == Pow2(16 - block.bits)
        base == block.addr - (block.addr % size)
    IN  [ base |-> base, last |-> base + size - 1 ]

\* Netmask.contains(block): both ends of the block lie inside the net.
contains(net, block) ==
    LET b == Netmask(block)
    IN  /\ net.base <= b.base /\ b.base <= net.last
        /\ net.base <= b.last /\ b.last <= net.last

isPrivateCIDRBlock(cidrBlock) ==
    LET privateA == Netmask(Cidr(10, 0, 8))
        privateB == Netmask(Cidr(172, 16, 12))
        privateC == Netmask(Cidr(192, 168, 16))
    IN  contains(privateA, cidrBlock) \/ contains(privateB, cidrBlock)
          \/ contains(privateC, cidrBlock)

\* routeTable.routes.find(r => !!r.gatewayId && !isPrivateCIDRBlock(r.cidrBlock))
\*   !== undefined
hasInternetGatewayRoute(routes) ==
    \E i \in 1..Len(routes) :
        routes[i].gatewayId # "" /\ ~isPrivateCIDRBlock(routes[i].cidrBlock)

\* The private subnets followed by the public ones.
workerSubnetsBoth(publicSubnets, privateSubnets) == privateSubnets \o publicSubnets

\* The public subnets, whatever was classified private.
workerSubnetsPublicOnly(publicSubnets, privateSubnets) == publicSubnets

\* return privateSubnets.length === 0 ? publicSubnets : privateSubnets
workerSubnets(publicSubnets, privateSubnets) ==
    IF Len(privateSubnets) = 0 THEN publicSubnets ELSE privateSubnets

\* Gateway ids of a route: none (the route targets something else, such as
\* a NAT gateway or a network interface), an internet gateway, a virtual
\* private (VPN) gateway.
GatewayIds == { "", "igw-1", "vgw-1" }
InternetGateways == { "igw-1" }

CidrBlocks ==
    { Cidr(0, 0, 0), Cidr(10, 0, 8), Cidr(172, 16, 12), Cidr(192, 168, 16),
      Cidr(10, 1, 16), Cidr(172, 0, 8), Cidr(8, 8, 16) }

Routes == [ gatewayId : GatewayIds, cidrBlock : CidrBlocks ]

\* Route tables of up to two routes.
RouteTables ==
    { << >> } \cup { << r >> : r \in Routes } \cup { << r, q >> : r \in Routes, q \in Routes }

\* Route tables of at most one route, to the default destination or into a
\* private range.
SmallRouteTables ==
    { << >> } \cup { << r >> : r \in [ gatewayId : GatewayIds,
                                       cidrBlock : { Cidr(0, 0, 0), Cidr(10, 1, 16) } ] }

SubnetIdValues == { "subnet-a", "subnet-b" }

\* The lists of at most n subnet ids.
SubnetLists(n) == UNION { [ 1..k -> SubnetIdValues ] : k \in 0..n }

\* ------------------------------------------------------------------------
\* Bootstrap options and the composition of the user data
\* ------------------------------------------------------------------------

\* A string is the sequence of its UTF-8 bytes; every text below is ASCII.

\* Bounds of the option values.
\* The longest kubeletExtraArgs string.
MaxKubeletLen == 3
\* The largest number of labels.
MaxLabels == 2

\* The separators and the fixed texts of the kubelet arguments and of the
\* user data script.
Text ==
    [ \* " "
      space |->
        << 32 >>,
      \* ","
      comma |->
        << 44 >>,
      \* "="
      equals |->
        << 61 >>,
      \* ":"
      colon |->
        << 58 >>,
      \* "'"
      quote |->
        << 39 >>,
      \* the line feed
      newline |->
        << 10 >>,
      \* "--node-labels="
      nodeLabelsFlag |->
        << 45, 45, 110, 111, 100, 101, 45, 108, 97, 98, 101, 108, 115,
           61 >>,
      \* "--register-with-taints="
      registerWithTaintsFlag |->
        << 45, 45, 114, 101, 103, 105, 115, 116, 101, 114, 45, 119,
           105, 116, 104, 45, 116, 97, 105, 110, 116, 115, 61 >>,
      \* " --kubelet-extra-args "
      kubeletExtraArgsFlag |->
        << 32, 45, 45, 107, 117, 98, 101, 108, 101, 116, 45, 101, 120,
           116, 114, 97, 45, 97, 114, 103, 115, 32 >>,
      \* "#!/bin/bash" and an empty line
      shebang |->
        << 35, 33, 47, 98, 105, 110, 47, 98, 97, 115, 104, 10, 10 >>,
      \* /etc/eks/bootstrap.sh --apiserver-endpoint "
      bootstrapCommand |->
        << 47, 101, 116, 99, 47, 101, 107, 115, 47, 98, 111, 111, 116,
           115, 116, 114, 97, 112, 46, 115, 104, 32, 45, 45, 97, 112,
           105, 115, 101, 114, 118, 101, 114, 45, 101, 110, 100, 112,
           111, 105, 110, 116, 32, 34 >>,
      \* " --b64-cluster-ca "
      b64ClusterCaFlag |->
        << 34, 32, 45, 45, 98, 54, 52, 45, 99, 108, 117, 115, 116,
           101, 114, 45, 99, 97, 32, 34 >>,
      \* " "  (closing quote, space, opening quote)
      clusterNameOpen |->
        << 34, 32, 34 >>,
      \* the closing quote
      clusterNameClose |->
        << 34 >>,
      \* cat >/opt/user-data <<
      hereDocOpen |->
        << 99, 97, 116, 32, 62, 47, 111, 112, 116, 47, 117, 115, 101,
           114, 45, 100, 97, 116, 97, 32, 60, 60 >>,
      \* -user-data and a line feed
      hereDocTag |->
        << 45, 117, 115, 101, 114, 45, 100, 97, 116, 97, 10 >>,
      \* chmod +x /opt/user-data, /opt/user-data
      runUserData |->
        << 99, 104, 109, 111, 100, 32, 43, 120, 32, 47, 111, 112, 116,
           47, 117, 115, 101, 114, 45, 100, 97, 116, 97, 10, 47, 111,
           112, 116, 47, 117, 115, 101, 114, 45, 100, 97, 116, 97, 10 >>,
      \* /opt/aws/bin/cfn-signal --exit-code $? --stack 
      cfnSignalCommand |->
        << 47, 111, 112, 116, 47, 97, 119, 115, 47, 98, 105, 110, 47,
           99, 102, 110, 45, 115, 105, 103, 110, 97, 108, 32, 45, 45,
           101, 120, 105, 116, 45, 99, 111, 100, 101, 32, 36, 63, 32,
           45, 45, 115, 116, 97, 99, 107, 32 >>,
      \*  --resource NodeGroup --region 
      cfnSignalResource |->
        << 32, 45, 45, 114, 101, 115, 111, 117, 114, 99, 101, 32, 78,
           111, 100, 101, 71, 114, 111, 117, 112, 32, 45, 45, 114,
           101, 103, 105, 111, 110, 32 >>,
      \* cfn-signal
      cfnSignalName |->
        << 99, 102, 110, 45, 115, 105, 103, 110, 97, 108 >>,
      \* /etc/eks/bootstrap.sh
      bootstrapName |->
        << 47, 101, 116, 99, 47, 101, 107, 115, 47, 98, 111, 111, 116,
           115, 116, 114, 97, 112, 46, 115, 104 >> ]

\* A-Z a-z 0-9 + /
Base64Alphabet ==
    << 65, 66, 67, 68, 69, 70, 71, 72, 73, 74, 75, 76, 77, 78, 79,
       80, 81, 82, 83, 84, 85, 86, 87, 88, 89, 90, 97, 98, 99,
       100, 101, 102, 103, 104, 105, 106, 107, 108, 109, 110, 111,
       112, 113, 114, 115, 116, 117, 118, 119, 120, 121, 122, 48,
       49, 50, 51, 52, 53, 54, 55, 56, 57, 43, 47 >>

\* "="
Base64Pad ==
    << 61 >>

\* The values the deployment supplies to the script.
Deployment ==
    [ \* region.name of the deployment: "r1"
      regionName |->
        << 114, 49 >>,
      \* eksCluster.name: "c1"
      clusterName |->
        << 99, 49 >>,
      \* eksCluster.endpoint: "e1"
      clusterEndpoint |->
        << 101, 49 >>,
      \* eksCluster.certificateAuthority.data: "d1"
      clusterCaData |->
        << 100, 49 >>,
      \* the random name of the stack: "ng-0"
      cfnStackName |->
        << 110, 103, 45, 48 >>,
      \* the name of the node group: "ng"
      name |->
        << 110, 103 >> ]

\* An optional value: not given (undefined), or given with a value.
Absent == [ given |-> FALSE, value |-> << >> ]
Some(v) == [ given |-> TRUE, value |-> v ]

\* JavaScript truthiness of an optional string: undefined and "" are falsy.
TruthyString(x) == x.given /\ x.value # << >>

\* All strings of at most n characters over the alphabet.
Strings(alphabet, n) == UNION { [ 1..k -> alphabet ] : k \in 0..n }

\* All sequences of at most n distinct entries.
Mappings(entries, n) ==
    { m \in UNION { [ 1..k -> entries ] : k \in 0..n } :
        \A i, j \in 1..Len(m) : i # j => m[i][1] # m[j][1] }

\* kubeletExtraArgs strings: the letter "a" and the space.
KubeletStrings == Strings({ 97, Text.space[1] }, MaxKubeletLen)

\* labels: "k" |-> "v", "l" |-> "w", "m" |-> "x", in insertion order.
LabelEntries == { << << 107 >>, << 118 >> >>, << << 108 >>, << 119 >> >>, << << 109 >>, << 120 >> >> }

\* taints: "t" |-> { value: "1", effect: "NoSchedule" },
\*         "u" |-> { value: "2", effect: "NoExecute" }.
TaintEntries ==
    { << << 116 >>, [ value |-> << 49 >>,
                      effect |-> << 78, 111, 83, 99, 104, 101, 100, 117, 108, 101 >> ] >>,
      << << 117 >>, [ value |-> << 50 >>,
                      effect |-> << 78, 111, 69, 120, 101, 99, 117, 116, 101 >> ] >> }

\* The bootstrap options of a call.  bootstrapExtraArgs is "" or "-x",
\* nodeUserData "" or "u", nodeUserDataOverride "" or "o".
BootstrapOptions ==
    [ kubeletExtraArgs     : { Absent } \cup { Some(s) : s \in KubeletStrings },
      labels               : { Absent } \cup { Some(m) : m \in Mappings(LabelEntries, MaxLabels) },
      taints               : { Absent } \cup { Some(m) : m \in Mappings(TaintEntries, 2) },
      bootstrapExtraArgs   : { Absent, Some(<< >>), Some(<< 45, 120 >>) },
      nodeUserData         : { Absent, Some(<< >>), Some(<< 117 >>) },
      nodeUserDataOverride : { Absent, Some(<< >>), Some(<< 111 >>) } ]

\* No bootstrap option is given.
NoBootstrapOptions ==
    [ kubeletExtraArgs |-> Absent, labels |-> Absent, taints |-> Absent,
      bootstrapExtraArgs |-> Absent, nodeUserData |-> Absent, nodeUserDataOverride |-> Absent ]

\* What the checks of the synchronous body see of the bootstrap options:
\* their truthiness (an object, even an empty one, is truthy).
Truthiness(o) ==
    [ NoArgs EXCEPT !.nodeUserDataOverride = TruthyString(o.nodeUserDataOverride),
                    !.nodeUserData = TruthyString(o.nodeUserData),
                    !.labels = o.labels.given,
                    !.taints = o.taints.given,
                    !.kubeletExtraArgs = TruthyString(o.kubeletExtraArgs),
                    !.bootstrapExtraArgs = TruthyString(o.bootstrapExtraArgs) ]

\* String.prototype.split(" "): the pieces between the spaces, empty pieces
\* included.
RECURSIVE split(_)
split(s) ==
    IF \A i \in 1..Len(s) : s[i] # Text.space[1] THEN << s >>
    ELSE LET i == CHOOSE k \in 1..Len(s) :
                    s[k] = Text.space[1] /\ \A j \in 1..(k - 1) : s[j] # Text.space[1]
         IN  << SubSeq(s, 1, i - 1) >> \o split(SubSeq(s, i + 1, Len(s)))

\* Array.prototype.join(sep).
RECURSIVE join(_, _)
join(parts, sep) ==
    IF Len(parts) = 0 THEN << >>
    ELSE IF Len(parts) = 1 THEN parts[1]
    ELSE parts[1] \o sep \o join(Tail(parts), sep)

\* parts.push(key + "=" + args.labels[key])
labelParts(labels) ==
    [ i \in 1..Len(labels) |-> labels[i][1] \o Text.equals \o labels[i][2] ]

\* parts.push(key + "=" + taint.value + ":" + taint.effect)
taintParts(taints) ==
    [ i \in 1..Len(taints) |->
        taints[i][1] \o Text.equals \o taints[i][2].value \o Text.colon \o taints[i][2].effect ]

\* The taints token is pushed before the labels token.
kubeletExtraArgsTaintsFirst(o) ==
    LET explicit == IF TruthyString(o.kubeletExtraArgs)
                      THEN split(o.kubeletExtraArgs.value) ELSE << >>
        withTaints == IF o.taints.given /\ Len(o.taints.value) > 0
                        THEN Append(explicit, Text.registerWithTaintsFlag
                                                \o join(taintParts(o.taints.value), Text.comma))
                        ELSE explicit
    IN  IF o.labels.given /\ Len(o.labels.value) > 0
          THEN Append(withTaints, Text.nodeLabelsFlag \o join(labelParts(o.labels.value), Text.comma))
          ELSE withTaints

\* const kubeletExtraArgs, after the labels and the taints are pushed.
kubeletExtraArgs(o) ==
    LET explicit == IF TruthyString(o.kubeletExtraArgs)
                      THEN split(o.kubeletExtraArgs.value) ELSE << >>
        withLabels == IF o.labels.given /\ Len(o.labels.value) > 0
                        THEN Append(explicit, Text.nodeLabelsFlag
                                                \o join(labelParts(o.labels.value), Text.comma))
                        ELSE explicit
    IN  IF o.taints.given /\ Len(o.taints.value) > 0
          THEN Append(withLabels, Text.registerWithTaintsFlag
                                    \o join(taintParts(o.taints.value), Text.comma))
          ELSE withLabels

\* The kubeletExtraArgs option is pushed as one token, not split.
kubeletExtraArgsV2Unsplit(o) ==
    LET explicit == IF TruthyString(o.kubeletExtraArgs)
                      THEN << o.kubeletExtraArgs.value >> ELSE << >>
        withLabels == IF o.labels.given /\ Len(o.labels.value) > 0
                        THEN Append(explicit, Text.nodeLabelsFlag
                                                \o join(labelParts(o.labels.value), Text.comma))
                        ELSE explicit
    IN  IF o.taints.given /\ Len(o.taints.value) > 0
          THEN Append(withLabels, Text.registerWithTaintsFlag
                                    \o join(taintParts(o.taints.value), Text.comma))
          ELSE withLabels

kubeletExtraArgsV2(o) ==
    LET explicit == IF TruthyString(o.kubeletExtraArgs)
                      THEN split(o.kubeletExtraArgs.value) ELSE << >>
        withLabels == IF o.labels.given /\ Len(o.labels.value) > 0
                        THEN Append(explicit, Text.nodeLabelsFlag
                                                \o join(labelParts(o.labels.value), Text.comma))
                        ELSE explicit
    IN  IF o.taints.given /\ Len(o.taints.value) > 0
          THEN Append(withLabels, Text.registerWithTaintsFlag
                                    \o join(taintParts(o.taints.value), Text.comma))
          ELSE withLabels

\* Every non-empty token list is wrapped in quotes.
bootstrapExtraArgsAlwaysQuoted(o) ==
    LET tokens == kubeletExtraArgs(o)
        explicit == IF TruthyString(o.bootstrapExtraArgs)
                      THEN Text.space \o o.bootstrapExtraArgs.value ELSE << >>
    IN  IF Len(tokens) >= 1
          THEN explicit \o Text.kubeletExtraArgsFlag \o Text.quote \o join(tokens, Text.space) \o Text.quote
          ELSE explicit

\* let bootstrapExtraArgs, after the --kubelet-extra-args flag is appended.
bootstrapExtraArgs(o) ==
    LET tokens == kubeletExtraArgs(o)
        explicit == IF TruthyString(o.bootstrapExtraArgs)
                      THEN Text.space \o o.bootstrapExtraArgs.value ELSE << >>
    IN  IF Len(tokens) = 1 THEN explicit \o Text.kubeletExtraArgsFlag \o tokens[1]
        ELSE IF Len(tokens) > 1
          THEN explicit \o Text.kubeletExtraArgsFlag \o Text.quote \o join(tokens, Text.space) \o Text.quote
        ELSE explicit

bootstrapExtraArgsV2(o) ==
    LET tokens == kubeletExtraArgsV2(o)
        explicit == IF TruthyString(o.bootstrapExtraArgs)
                      THEN Text.space \o o.bootstrapExtraArgs.value ELSE << >>
    IN  IF Len(tokens) = 1 THEN explicit \o Text.kubeletExtraArgsFlag \o tokens[1]
        ELSE IF Len(tokens) > 1
          THEN explicit \o Text.kubeletExtraArgsFlag \o Text.quote \o join(tokens, Text.space) \o Text.quote
        ELSE explicit

\* const userDataArg = args.nodeUserData || pulumi.output("")
userDataArg(o) == IF TruthyString(o.nodeUserData) THEN o.nodeUserData.value ELSE << >>

\* customUserData, wrapped in a here-document when it is not empty.
customUserData(o, stackName) ==
    IF userDataArg(o) = << >> THEN << >>
    ELSE Text.hereDocOpen \o stackName \o Text.hereDocTag
         \o userDataArg(o) \o Text.newline
         \o stackName \o Text.hereDocTag
         \o Text.runUserData

\* The first lines of both scripts: the interpreter directive and the
\* bootstrap invocation.
bootstrapInvocation(flags) ==
    Text.shebang \o Text.bootstrapCommand \o Deployment.clusterEndpoint \o Text.b64ClusterCaFlag \o Deployment.clusterCaData
      \o Text.clusterNameOpen \o Deployment.clusterName \o Text.clusterNameClose \o flags \o Text.newline

\* The last line of the legacy script.
cfnSignal(stackName) ==
    Text.cfnSignalCommand \o stackName \o Text.cfnSignalResource \o Deployment.regionName \o Text.newline

\* The script ends without signalling the stack.
userdataWithoutSignal(o) ==
    bootstrapInvocation(bootstrapExtraArgs(o)) \o customUserData(o, Deployment.cfnStackName) \o Text.newline

\* const userdata of createNodeGroupInternal.
userdata(o) ==
    bootstrapInvocation(bootstrapExtraArgs(o)) \o customUserData(o, Deployment.cfnStackName) \o Text.newline
      \o cfnSignal(Deployment.cfnStackName)

\* The composed script is given in place of a supplied override.
launchConfigurationUserDataComposed(o) == userdata(o)

\* userData: args.nodeUserDataOverride || userdata
launchConfigurationUserData(o) ==
    IF TruthyString(o.nodeUserDataOverride) THEN o.nodeUserDataOverride.value ELSE userdata(o)

\* Buffer.from(x, "utf-8").toString("base64")
Base64(bytes) ==
    LET n == Len(bytes)
        byte(i) == IF i <= n THEN bytes[i] ELSE 0
        v(g) == byte(3 * g - 2) * 65536 + byte(3 * g - 1) * 256 + byte(3 * g)
    IN  [ i \in 1..(4 * ((n + 2) \div 3)) |->
            LET g == (i + 3) \div 4
                k == (i - 1) % 4
            IN  IF 3 * (g - 1) + k > n
                  THEN Base64Pad[1]
                  ELSE Base64Alphabet[((v(g) \div (64 ^ (3 - k))) % 64) + 1] ]

\* The script, before it is encoded.
scriptV2(o) ==
    IF o.nodeUserDataOverride.given /\ o.nodeUserDataOverride.value # << >>
      THEN o.nodeUserDataOverride.value
      ELSE bootstrapInvocation(bootstrapExtraArgsV2(o)) \o customUserData(o, Deployment.name) \o Text.newline

\* const userdata of createNodeGroupV2Internal.
userdataV2(o) == Base64(scriptV2(o))

\* userData: userdata
launchTemplateUserData(o) == userdataV2(o)

\* ------------------------------------------------------------------------
\* Image, capacity and returned data of a call
\* ------------------------------------------------------------------------

\* The largest number of options a caller supplies.
MaxGiven == 2

\* The values of the options that differ from "not supplied", in the order of
\* the record built by MkOptions.
OptionChoices ==
    << {"ami-1"},                          \* amiId
       {"", "amazon-linux-2-arm64"},       \* amiType
       {TRUE},                             \* gpu
       {"", "1.21"},                       \* version
       {0, 3},                             \* desiredCapacity
       {0, 3},                             \* minSize
       {0, 3},                             \* maxSize
       {"", "0.5"},                        \* spotPrice
       { Some(config) :                    \* scalingConfig
           config \in [ desiredSize : {UndefNum, 0, 3},
                        minSize : {UndefNum, 0, 3},
                        maxSize : {UndefNum, 0, 3} ] },
       { Some(<< >>), Some(<< "sgX" >>) }, \* extraNodeSecurityGroups
       {"cluster"} >>                      \* cluster

OptionDefaults ==
    << Undef, Undef, FALSE, Undef, UndefNum, UndefNum, UndefNum, Undef, Absent, Absent, Undef >>

MkOptions(t) ==
    [ amiId                   |-> t[1],
      amiType                 |-> t[2],
      gpu                     |-> t[3],
      version                 |-> t[4],
      desiredCapacity         |-> t[5],
      minSize                 |-> t[6],
      maxSize                 |-> t[7],
      spotPrice               |-> t[8],
      scalingConfig           |-> t[9],
      extraNodeSecurityGroups |-> t[10],
      cluster                 |-> t[11] ]

\* The options objects a caller hands to a provisioner.
Options == { MkOptions(t) : t \in Tuples(OptionChoices, OptionDefaults, 1, MaxGiven) }

\* JavaScript truthiness of an optional string.
TruthyValue(x) == x # Undef /\ x # ""

\* const version = pulumi.output(args.version || core.cluster.version)
version(a, c) == IF TruthyValue(a.version) THEN a.version ELSE c.version

\* const amiType = args.amiType ?? args.gpu ? "amazon-linux-2-gpu" :
\* "amazon-linux-2": the conditional operator binds less tightly than ??, so
\* the condition is (args.amiType ?? args.gpu).
amiType(a) ==
    IF (IF a.amiType # Undef THEN TruthyValue(a.amiType) ELSE a.gpu)
      THEN "amazon-linux-2-gpu" ELSE "amazon-linux-2"

\* const parameterName, as the segments of the path.
parameterName(a, c) ==
    << "aws", "service", "eks", "optimized-ami", version(a, c), amiType(a),
       "recommended", "image_id" >>

\* let amiId: the supplied image, else the parameter that is looked up.
amiId(a, c) ==
    IF TruthyValue(a.amiId) THEN [ id |-> a.amiId, parameter |-> << >> ]
    ELSE [ id |-> Undef, parameter |-> parameterName(a, c) ]

\* Every capacity bound is set to its default.
argsCapacityOverwritten(a) ==
    [ a EXCEPT !.desiredCapacity = 2, !.minSize = 1, !.maxSize = 2 ]

\* args after "Configure the settings for the autoscaling group": the unset
\* capacity bounds are assigned on the caller's object.
argsCapacity(a) ==
    [ a EXCEPT !.desiredCapacity = IF @ = UndefNum THEN 2 ELSE @,
               !.minSize         = IF @ = UndefNum THEN 1 ELSE @,
               !.maxSize         = IF @ = UndefNum THEN 2 ELSE @ ]

\* let minInstancesInService
minInstancesInService(a) == IF TruthyValue(a.spotPrice) THEN 0 ELSE 1

\* const cfnTemplateBody: the values interpolated into the template.
cfnTemplateBody(a) ==
    [ DesiredCapacity       |-> toString(argsCapacity(a).desiredCapacity),
      MinSize               |-> toString(argsCapacity(a).minSize),
      MaxSize               |-> toString(argsCapacity(a).maxSize),
      MinInstancesInService |-> toString(minInstancesInService(a)),
      MaxBatchSize          |-> << "1" >> ]

\* A bound of 0 is replaced by its default, as || would.
asGroupFalsyDefaults(a) ==
    [ minSize         |-> IF a.minSize \in {UndefNum, 0} THEN 1 ELSE a.minSize,
      maxSize         |-> IF a.maxSize \in {UndefNum, 0} THEN 2 ELSE a.maxSize,
      desiredCapacity |-> IF a.desiredCapacity \in {UndefNum, 0} THEN 2 ELSE a.desiredCapacity ]

\* const asGroup: minSize, maxSize and desiredCapacity of the group.
asGroup(a) ==
    [ minSize         |-> IF a.minSize = UndefNum THEN 1 ELSE a.minSize,
      maxSize         |-> IF a.maxSize = UndefNum THEN 2 ELSE a.maxSize,
      desiredCapacity |-> IF a.desiredCapacity = UndefNum THEN 2 ELSE a.desiredCapacity ]

\* The defaults are taken only when scalingConfig is absent.
scalingConfigAllOrNothing(config) ==
    IF ~config.given THEN [ desiredSize |-> 2, minSize |-> 1, maxSize |-> 2 ] ELSE config.value

\* scalingConfig of the managed node group.
scalingConfig(config) ==
    [ desiredSize |-> IF ~config.given \/ config.value.desiredSize = UndefNum
                        THEN 2 ELSE config.value.desiredSize,
      minSize     |-> IF ~config.given \/ config.value.minSize = UndefNum
                        THEN 1 ELSE config.value.minSize,
      maxSize     |-> IF ~config.given \/ config.value.maxSize = UndefNum
                        THEN 2 ELSE config.value.maxSize ]

\* const extraNodeSecurityGroupIds of createNodeGroupInternal: the id of
\* each extra group, none when the option is absent.
extraNodeSecurityGroupIds(a) ==
    IF a.extraNodeSecurityGroups.given
      THEN [ i \in 1..Len(a.extraNodeSecurityGroups.value) |->
               << a.extraNodeSecurityGroups.value[i], "id" >> ]
      ELSE << >>

\* const extraNodeSecurityGroupIds of createNodeGroupV2Internal.
extraNodeSecurityGroupIdsV2(a) ==
    IF a.extraNodeSecurityGroups.given
      THEN [ i \in 1..Len(a.extraNodeSecurityGroups.value) |->
               << a.extraNodeSecurityGroups.value[i], "id" >> ]
      ELSE << >>

\* const nodeGroupArgs: a copy of args without its cluster.
nodeGroupArgs(a) == [ a EXCEPT !.cluster = Undef ]

\* The outputs of the stack: the output keys it has, each with the name the
\* stack reports for it.
StackOutputs ==
    UNION { [ keys -> {"asg-1"} ] : keys \in SUBSET {"NodeGroup", "LaunchConfiguration"} }

\* The value of the key is returned without testing for the key.
autoScalingGroupNameUnchecked(outs) ==
    IF "NodeGroup" \in DOMAIN outs
      THEN [ known |-> TRUE, value |-> outs["NodeGroup"], error |-> NoError ]
      ELSE [ known |-> TRUE, value |-> Undef, error |-> NoError ]

\* const autoScalingGroupName = cfnStack.outputs.apply(...)
autoScalingGroupName(outs) ==
    IF "NodeGroup" \in DOMAIN outs
      THEN [ known |-> TRUE, value |-> outs["NodeGroup"], error |-> NoError ]
      ELSE [ known |-> TRUE, value |-> Undef, error |-> "StackNotReady" ]

\* The NodeGroup component: its constructor assigns nodeSecurityGroup,
\* cfnStack and autoScalingGroupName from the group the provisioner returns.
NodeGroup(group) ==
    [ nodeSecurityGroup       |-> group.nodeSecurityGroup,
      cfnStack                |-> group.cfnStack,
      autoScalingGroupName    |-> group.autoScalingGroupName,
      extraNodeSecurityGroups |-> Absent ]

\* The NodeGroupV2 component: its constructor assigns nodeSecurityGroup and
\* autoScalingGroup.
NodeGroupV2(group) ==
    [ nodeSecurityGroup       |-> group.nodeSecurityGroup,
      autoScalingGroup        |-> group.autoScalingGroup,
      extraNodeSecurityGroups |-> Absent ]

\* What a call has resolved; nothing before the first call.
NoCall ==
    [ provisioner |-> "none", args |-> Undef, error |-> NoError, amiId |-> Undef,
      capacity |-> Undef, scalingConfig |-> Undef, nodeGroupArgs |-> Undef,
      outputs |-> << >>,
      autoScalingGroupName |-> [ known |-> FALSE, value |-> Undef, error |-> NoError ],
      group |-> Undef, component |-> Undef ]

\* ------------------------------------------------------------------------
\* State
\* ------------------------------------------------------------------------

VARIABLES
    core,          \* the ClusterCore shared by the calls
    kind,          \* the provisioner called, "none" before the call
    args,          \* the options of the call
    syncError,     \* the error thrown by the synchronous body
    registered,    \* resources constructed by the call
    pair,          \* <<nodeSecurityGroup, eksClusterIngressRule>> of the call
    outputs,       \* state of each apply callback's output
    coreResolved,  \* core has resolved, the callbacks on it have run
    asyncErrors,   \* errors thrown inside apply callbacks
    created,       \* resources that exist in the cloud
    inputs,        \* <<property, value>> pairs handed to the fleet resources
    \* computeWorkerSubnets
    stage,          \* the lookup the call awaits, or idle / returned / failed
    subnetIds,      \* the candidate subnets
    done,           \* number of candidates classified so far
    publicSubnets,
    privateSubnets,
    routeTable,     \* the routes of the route table fetched last
    caught,         \* what the explicit lookup of the current candidate threw
    log,            \* per classified candidate: its id, what was caught, its class
    result,         \* the returned list
    \* composition of the user data
    provisioner,    \* the provisioner that composed it, "none" before
    options,        \* the bootstrap options of the call
    kubeletTokens,  \* the list kubeletExtraArgs
    bootstrapFlags, \* the string bootstrapExtraArgs
    userData,       \* the userData property of the launch configuration / template
    \* image, capacity and returned data
    callerArgs,     \* the options object of the caller
    resolved        \* what the last call on it resolved

provVars == << core, kind, args, syncError, registered, pair, outputs, coreResolved,
               asyncErrors, created, inputs >>

cwsVars == << stage, subnetIds, done, publicSubnets, privateSubnets, routeTable,
              caught, log, result >>

udVars == << provisioner, options, kubeletTokens, bootstrapFlags, userData >>

rsVars == << callerArgs, resolved >>

vars == << provVars, cwsVars, udVars, rsVars >>

ProvIdle ==
    /\ kind = "none"
    /\ args = NoArgs
    /\ syncError = NoError
    /\ registered = {}
    /\ pair = << Undef, Undef >>
    /\ outputs = [ ap \in Applies |-> "none" ]
    /\ coreResolved = FALSE
    /\ asyncErrors = {}
    /\ created = {}
    /\ inputs = {}

CwsIdle ==
    /\ stage = "idle"
    /\ subnetIds = << >>
    /\ done = 0
    /\ publicSubnets = << >>
    /\ privateSubnets = << >>
    /\ routeTable = << >>
    /\ caught = "none"
    /\ log = << >>
    /\ result = << >>

RsIdle ==
    /\ callerArgs = MkOptions(OptionDefaults)
    /\ resolved = NoCall

UdIdle ==
    /\ provisioner = "none"
    /\ options = NoBootstrapOptions
    /\ kubeletTokens = << >>
    /\ bootstrapFlags = << >>
    /\ userData = << >>

Init ==
    /\ core \in CoreData
    /\ ProvIdle
    /\ CwsIdle
    /\ UdIdle
    /\ RsIdle

\* ------------------------------------------------------------------------
\* Provisioning calls and the deployment engine
\* ------------------------------------------------------------------------

\* The synchronous body of a provisioner runs to its end or to its first
\* throw.
Call(knd, a, steps) ==
    LET r == Run(steps)
    IN  /\ kind = "none"
        /\ kind' = knd
        /\ args' = a
        /\ syncError' = r.error
        /\ registered' = r.registered
        /\ pair' = r.pair
        /\ inputs' = r.inputs
        /\ outputs' = [ ap \in Applies |->
                          IF ap \in r.values THEN "ok"
                          ELSE IF ap \in r.applies THEN "pending" ELSE "none" ]
        /\ UNCHANGED << core, coreResolved, asyncErrors, created, cwsVars, udVars, rsVars >>

createNodeGroup(a) == Call("createNodeGroup", a, createNodeGroupInternal(a))

createNodeGroupV2(a) == Call("createNodeGroupV2", a, createNodeGroupV2Internal(a))

createManagedNodeGroup(a) ==
    Call("createManagedNodeGroup", a, createManagedNodeGroupInternal(a))

\* core resolves: every callback registered on it runs.
coreApply ==
    /\ kind # "none"
    /\ ~coreResolved
    /\ coreResolved' = TRUE
    /\ outputs' = [ ap \in Applies |->
                      IF outputs[ap] = "pending"
                        THEN ApplyOnCore(ap, kind, args, core) ELSE outputs[ap] ]
    /\ asyncErrors' = asyncErrors \cup
                        { ApplyError(ap) : ap \in { x \in Applies : outputs'[x] = "err" } }
    /\ inputs' = inputs \cup
                   ( IF outputs'["instanceProfile"] # "ok" THEN {}
                     ELSE IF kind = "createNodeGroup"
                       THEN { << "iamInstanceProfile", instanceProfile(args, core) >> }
                       ELSE { << "iamInstanceProfile.arn", instanceProfileArn(args, core) >> } )
                   \cup
                   ( IF outputs["workerSubnetIds"] # "pending"
                          \/ outputs'["workerSubnetIds"] # "ok" THEN {}
                     ELSE IF kind = "createNodeGroup"
                       THEN { << "VPCZoneIdentifier", workerSubnetIds(args, core) >> }
                       ELSE { << "vpcZoneIdentifiers", workerSubnetIdsV2(args, core) >> } )
                   \cup
                   ( IF outputs["subnetIds"] # "pending" THEN {}
                     ELSE { << "subnetIds", nodeGroupSubnetIds(args, core) >> } )
    /\ UNCHANGED << core, kind, args, syncError, registered, pair, created, cwsVars, udVars, rsVars >>

\* The role ARN and core.instanceRoles are both known: the check that the
\* role is registered with the cluster runs.
nodegroupRoleApply ==
    /\ coreResolved
    /\ outputs["nodegroupRoleCheck"] = "pending"
    /\ args.nodeRole # Undef => args.nodeRole \in created
    /\ LET found == nodegroupRole(args, core) # Undef
       IN  /\ outputs' = [ outputs EXCEPT !["nodegroupRoleCheck"] =
                                             IF found THEN "ok" ELSE "err" ]
           /\ asyncErrors' = IF found THEN asyncErrors
                             ELSE asyncErrors \cup { ApplyError("nodegroupRoleCheck") }
    /\ UNCHANGED << inputs, core, kind, args, syncError, registered, pair, coreResolved, created,
                    cwsVars, udVars, rsVars >>

\* The outputs the user data is composed from are known (the cluster's, and
\* in createNodeGroupInternal the name of the stack): the callback runs.
userdataApply ==
    /\ coreResolved
    /\ outputs["userdata"] = "pending"
    /\ kind = "createNodeGroup" => "cfnStackName" \in created
    /\ outputs' = [ outputs EXCEPT !["userdata"] = "ok" ]
    /\ UNCHANGED << inputs, core, kind, args, syncError, registered, pair, coreResolved,
                    asyncErrors, created, cwsVars, udVars, rsVars >>

\* computeWorkerSubnets returns, or one of its lookups fails; it cannot
\* iterate over subnetIds that are undefined.
computeWorkerSubnetsSettles(ok) ==
    /\ outputs["workerSubnetIds"] = "computing"
    /\ ok => core.subnetIds
    /\ outputs' = [ outputs EXCEPT !["workerSubnetIds"] = IF ok THEN "ok" ELSE "err" ]
    /\ asyncErrors' = IF ok THEN asyncErrors
                      ELSE asyncErrors \cup { ApplyError("workerSubnetIds") }
    /\ inputs' = IF ~ok THEN inputs
                 ELSE IF kind = "createNodeGroup"
                   THEN inputs \cup { << "VPCZoneIdentifier", workerSubnetIds(args, core) >> }
                   ELSE inputs \cup { << "vpcZoneIdentifiers", workerSubnetIdsV2(args, core) >> }
    /\ UNCHANGED << core, kind, args, syncError, registered, pair, coreResolved, created,
                    cwsVars, udVars, rsVars >>

\* The engine creates a registered resource once everything it consumes is
\* available.
createResource(r) ==
    /\ r \in registered \ created
    /\ ResourceInputs(r, args, core, pair) \subseteq created
    /\ \A ap \in OutputInputs(r, args) : outputs[ap] = "ok"
    /\ created' = created \cup {r}
    /\ UNCHANGED << inputs, core, kind, args, syncError, registered, pair, outputs,
                    coreResolved, asyncErrors, cwsVars, udVars, rsVars >>

\* A resource made outside the call comes into existence.
createExternal(r) ==
    /\ kind # "none"
    /\ r \in ExternalResources(args, core, pair) \ created
    /\ created' = created \cup {r}
    /\ UNCHANGED << inputs, core, kind, args, syncError, registered, pair, outputs,
                    coreResolved, asyncErrors, cwsVars, udVars, rsVars >>

AllResources ==
    { "nodeSecurityGroup", "eksClusterIngressRule", "keyPair", "cfnStackName",
      "nodeLaunchConfiguration", "cfnStack", "nodeLaunchTemplate", "asGroup", "nodeGroup",
      "sgA", "sgB", "ruleA", "vpcCni", "eksNodeAccess", "roleA", "roleB" }

Next ==
    \/ kind = "none" /\ \E a \in NodeGroupOptions(core) : createNodeGroup(a)
    \/ kind = "none" /\ \E a \in NodeGroupOptions(core) : createNodeGroupV2(a)
    \/ kind = "none" /\ \E a \in ManagedNodeGroupOptions : createManagedNodeGroup(a)
    \/ coreApply
    \/ nodegroupRoleApply
    \/ userdataApply
    \/ \E ok \in BOOLEAN : computeWorkerSubnetsSettles(ok)
    \/ \E r \in AllResources : createResource(r)
    \/ \E r \in AllResources : createExternal(r)

Spec == Init /\ [][Next]_vars

\* ------------------------------------------------------------------------
\* computeWorkerSubnets, one awaited lookup per action
\* ------------------------------------------------------------------------

\* The call starts; with no candidate the loop body never runs.
computeWorkerSubnets(ids) ==
    /\ stage = "idle"
    /\ subnetIds' = ids
    /\ publicSubnets' = << >>
    /\ privateSubnets' = << >>
    /\ IF Len(ids) = 0
         THEN stage' = "returned" /\ result' = workerSubnets(<< >>, << >>)
         ELSE stage' = "getRouteTable" /\ UNCHANGED result
    /\ UNCHANGED << done, routeTable, caught, log, provVars, udVars, rsVars >>

\* The rest of a loop iteration, once the route table of the candidate is
\* known: classify it, then start on the next candidate or return.
Classify(routes) ==
    LET subnetId == subnetIds[done + 1]
        isPublic == hasInternetGatewayRoute(routes)
    IN  /\ routeTable' = routes
        /\ publicSubnets' = IF isPublic THEN Append(publicSubnets, subnetId)
                            ELSE publicSubnets
        /\ privateSubnets' = IF isPublic THEN privateSubnets
                             ELSE Append(privateSubnets, subnetId)
        /\ log' = Append(log, [ subnetId |-> subnetId, caught |-> caught,
                                class |-> IF isPublic THEN "public" ELSE "private" ])
        /\ done' = done + 1
        /\ caught' = "none"
        /\ IF done + 1 = Len(subnetIds)
             THEN stage' = "returned"
                  /\ result' = workerSubnets(publicSubnets', privateSubnets')
             ELSE stage' = "getRouteTable" /\ UNCHANGED result
        /\ UNCHANGED << subnetIds, provVars, udVars, rsVars >>

\* A lookup outside the try block fails: the call fails.
Fail ==
    /\ stage' = "failed"
    /\ UNCHANGED << subnetIds, done, publicSubnets, privateSubnets, routeTable, caught,
                    log, result, provVars, udVars, rsVars >>

\* aws.ec2.getRouteTable({ subnetId }) settles: it yields the explicitly
\* associated route table, or throws, because the subnet has no explicit
\* association ("noAssociation") or because the lookup itself failed
\* ("error"); the catch block takes over after either throw.
getRouteTable(outcome, routes) ==
    /\ stage = "getRouteTable"
    /\ IF outcome = "ok"
         THEN Classify(routes)
         ELSE /\ stage' = "getSubnet"
              /\ caught' = outcome
              /\ UNCHANGED << subnetIds, done, publicSubnets, privateSubnets, routeTable,
                              log, result, provVars, udVars, rsVars >>

\* aws.ec2.getSubnet({ id: subnetId }) settles.
getSubnet(ok) ==
    /\ stage = "getSubnet"
    /\ IF ok
         THEN /\ stage' = "getRouteTables"
              /\ UNCHANGED << subnetIds, done, publicSubnets, privateSubnets, routeTable,
                              caught, log, result, provVars, udVars, rsVars >>
         ELSE Fail

\* aws.ec2.getRouteTables({ vpcId, association.main }) settles.
getRouteTables(ok) ==
    /\ stage = "getRouteTables"
    /\ IF ok
         THEN /\ stage' = "getMainRouteTable"
              /\ UNCHANGED << subnetIds, done, publicSubnets, privateSubnets, routeTable,
                              caught, log, result, provVars, udVars, rsVars >>
         ELSE Fail

\* aws.ec2.getRouteTable({ routeTableId: mainRouteTableInfo.ids[0] }) settles.
getMainRouteTable(ok, routes) ==
    /\ stage = "getMainRouteTable"
    /\ IF ok THEN Classify(routes) ELSE Fail

LookupOutcomes == { "ok", "noAssociation", "error" }

NextSubnetsOver(lists, tables) ==
    \/ stage = "idle" /\ \E ids \in lists : computeWorkerSubnets(ids)
    \/ stage = "getRouteTable" /\
         \E outcome \in LookupOutcomes, routes \in tables : getRouteTable(outcome, routes)
    \/ \E ok \in BOOLEAN : getSubnet(ok)
    \/ \E ok \in BOOLEAN : getRouteTables(ok)
    \/ stage = "getMainRouteTable" /\
         \E ok \in BOOLEAN, routes \in tables : getMainRouteTable(ok, routes)

InitSubnets ==
    /\ core = MkCore(CoreDefaults)
    /\ ProvIdle
    /\ CwsIdle
    /\ UdIdle
    /\ RsIdle

\* Lists of candidates, each with a small route table.
NextSubnets == NextSubnetsOver(SubnetLists(MaxSubnets), SmallRouteTables)

SpecSubnets == InitSubnets /\ [][NextSubnets]_vars

\* Every lookup is an awaited request to the provider, which settles: it
\* yields its result or throws.  Nothing obliges a caller to start a call.
LookupSettles == stage # "idle" /\ NextSubnets

FairSubnets == SpecSubnets /\ WF_vars(LookupSettles)

\* A single candidate with any route table.
NextRoutes == NextSubnetsOver(SubnetLists(1), RouteTables)

SpecRoutes == InitSubnets /\ [][NextRoutes]_vars

\* ------------------------------------------------------------------------
\* Composition of the user data, from the bootstrap options of a call
\* ------------------------------------------------------------------------

\* createNodeGroupInternal, from the check of the override to the userData
\* property of the launch configuration.
composeUserData(o) ==
    /\ provisioner = "none"
    /\ ~userDataOverrideConflict(Truthiness(o))
    /\ provisioner' = "createNodeGroup"
    /\ options' = o
    /\ kubeletTokens' = kubeletExtraArgs(o)
    /\ bootstrapFlags' = bootstrapExtraArgs(o)
    /\ userData' = launchConfigurationUserData(o)
    /\ UNCHANGED << provVars, cwsVars, rsVars >>

\* createNodeGroupV2Internal, from the check of the override to the userData
\* property of the launch template.
composeUserDataV2(o) ==
    /\ provisioner = "none"
    /\ ~userDataOverrideConflictV2(Truthiness(o))
    /\ provisioner' = "createNodeGroupV2"
    /\ options' = o
    /\ kubeletTokens' = kubeletExtraArgsV2(o)
    /\ bootstrapFlags' = bootstrapExtraArgsV2(o)
    /\ userData' = launchTemplateUserData(o)
    /\ UNCHANGED << provVars, cwsVars, rsVars >>

InitUserData ==
    /\ core = MkCore(CoreDefaults)
    /\ ProvIdle
    /\ CwsIdle
    /\ UdIdle
    /\ RsIdle

NextUserData ==
    \/ provisioner = "none" /\ \E o \in BootstrapOptions : composeUserData(o)
    \/ provisioner = "none" /\ \E o \in BootstrapOptions : composeUserDataV2(o)

SpecUserData == InitUserData /\ [][NextUserData]_vars

\* ------------------------------------------------------------------------
\* Calls on one options object and one cluster core
\* ------------------------------------------------------------------------

\* new NodeGroup(name, args): createNodeGroupInternal on the caller's
\* options, and the component built from what it returns.
newNodeGroup ==
    LET a == callerArgs
        group == [ nodeSecurityGroup       |-> "nodeSecurityGroup",
                   cfnStack                |-> "cfnStack",
                   autoScalingGroupName    |-> "autoScalingGroupName",
                   extraNodeSecurityGroups |-> a.extraNodeSecurityGroups ]
    IN  IF amiGpuConflict([ amiId |-> TruthyValue(a.amiId), gpu |-> a.gpu ])
          THEN /\ resolved' = [ NoCall EXCEPT !.provisioner = "createNodeGroup", !.args = a,
                                               !.error = "AmiGpuConflict" ]
               /\ UNCHANGED << callerArgs, provVars, cwsVars, udVars >>
          ELSE /\ callerArgs' = argsCapacity(a)
               /\ resolved' = [ NoCall EXCEPT !.provisioner = "createNodeGroup", !.args = a,
                                               !.amiId = amiId(a, core),
                                               !.capacity = cfnTemplateBody(a),
                                               !.group = group,
                                               !.component = NodeGroup(group) ]
               /\ UNCHANGED << provVars, cwsVars, udVars >>

\* The outputs of the stack become available: the callback that extracts the
\* name of the autoscaling group runs.
cfnStackOutputs(outs) ==
    /\ resolved.provisioner = "createNodeGroup"
    /\ resolved.error = NoError
    /\ ~resolved.autoScalingGroupName.known
    /\ resolved' = [ resolved EXCEPT !.outputs = outs,
                                     !.autoScalingGroupName = autoScalingGroupName(outs) ]
    /\ UNCHANGED << callerArgs, provVars, cwsVars, udVars >>

\* new NodeGroupV2(name, args): createNodeGroupV2Internal on the caller's
\* options, and the component built from what it returns.
newNodeGroupV2 ==
    LET a == callerArgs
        group == [ nodeSecurityGroup       |-> "nodeSecurityGroup",
                   autoScalingGroup        |-> "asGroup",
                   extraNodeSecurityGroups |-> a.extraNodeSecurityGroups ]
    IN  /\ resolved' =
             IF amiGpuConflictV2([ amiId |-> TruthyValue(a.amiId), gpu |-> a.gpu ])
               THEN [ NoCall EXCEPT !.provisioner = "createNodeGroupV2", !.args = a,
                                    !.error = "AmiGpuConflict" ]
               ELSE [ NoCall EXCEPT !.provisioner = "createNodeGroupV2", !.args = a,
                                    !.amiId = amiId(a, core),
                                    !.capacity = asGroup(a),
                                    !.group = group,
                                    !.component = NodeGroupV2(group) ]
        /\ UNCHANGED << callerArgs, provVars, cwsVars, udVars >>

\* createManagedNodeGroupInternal on the caller's options, which name a
\* role.
newManagedNodeGroup ==
    LET a == callerArgs
    IN  /\ resolved' = [ NoCall EXCEPT !.provisioner = "createManagedNodeGroup", !.args = a,
                                       !.scalingConfig = scalingConfig(a.scalingConfig),
                                       !.nodeGroupArgs = nodeGroupArgs(a) ]
        /\ UNCHANGED << callerArgs, provVars, cwsVars, udVars >>

InitResolve ==
    /\ core = MkCore(CoreDefaults)
    /\ ProvIdle
    /\ CwsIdle
    /\ UdIdle
    /\ callerArgs \in Options
    /\ resolved = NoCall

NextResolve ==
    \/ newNodeGroup
    \/ newNodeGroupV2
    \/ newManagedNodeGroup
    \/ \E outs \in StackOutputs : cfnStackOutputs(outs)

SpecResolve == InitResolve /\ [][NextResolve]_vars

\* ------------------------------------------------------------------------
\* Properties
\* ------------------------------------------------------------------------

SelfManaged == kind \in { "createNodeGroup", "createNodeGroupV2" }

\* The resources a self-managed call makes for its fleet, in creation order.
FleetResources ==
    { "nodeLaunchConfiguration", "cfnStack", "nodeLaunchTemplate", "asGroup" }

\* The errors of the Option Validator that are thrown by the synchronous
\* body before the security-group pair is resolved.
EarlyErrors ==
    { "KeyConflict", "AmiGpuConflict", "UserDataOverrideConflict", "ClusterIngressRuleRequired" }

Range(f) == { f[i] : i \in DOMAIN f }

\* C1: in createNodeGroup and createNodeGroupV2 the launch configuration or
\* launch template, and the stack or autoscaling group built from it, exist
\* only when both the worker security group and the cluster ingress rule of
\* the call exist, whether the pair was supplied or made by the resolver.
C1_FleetAfterSecurityGroupPair ==
    (SelfManaged /\ created \cap FleetResources # {})
      => (pair[1] \in created /\ pair[2] \in created)

\* A stack was created for a legacy node group whose security group and
\* ingress rule were supplied by the caller.
C1_Witness ==
    /\ kind = "createNodeGroup"
    /\ args.nodeSecurityGroup # Undef
    /\ "cfnStack" \in created

\* C2: when a check of the Option Validator fails in createNodeGroup or
\* createNodeGroupV2 (in the synchronous body, or in the callback that
\* requires an instance profile), no resource constructed by the call exists.
C2_NoResourceOnValidationFailure ==
    (SelfManaged /\ (syncError # NoError \/ "InstanceProfileRequired" \in asyncErrors))
      => created \cap registered = {}

\* C3: the legacy stack and the V2 autoscaling group exist only when the CNI
\* and the identity-mapping resource of the core, if present, exist; the
\* managed node group only when the identity-mapping resource, if present,
\* exists; no fleet resource waits on an add-on that the core does not have.
C3_FleetAfterAddOns ==
    LET present == (IF core.vpcCni THEN {"vpcCni"} ELSE {})
                     \cup (IF core.eksNodeAccess THEN {"eksNodeAccess"} ELSE {})
    IN  /\ \A r \in { "cfnStack", "asGroup" } : r \in created => present \subseteq created
        /\ "nodeGroup" \in created => (present \cap {"eksNodeAccess"}) \subseteq created
        /\ \A r \in { "cfnStack", "asGroup", "nodeGroup" } :
             r \in registered =>
               (ResourceInputs(r, args, core, pair) \cap { "vpcCni", "eksNodeAccess" })
                 \subseteq present

\* A stack was created on a core that has both add-ons.
C3_Witness ==
    /\ "cfnStack" \in created
    /\ core.vpcCni /\ core.eksNodeAccess

\* C4: a managed node group whose role ARN is not among the ARNs of the
\* cluster's instance roles is never created.
C4_NoNodeGroupForUnregisteredRole ==
    (kind = "createManagedNodeGroup" /\ syncError = NoError
       /\ roleArn(args) \notin { RoleArnOf(role) : role \in core.instanceRoles })
      => "nodeGroup" \notin created

\* C8: a self-managed call whose synchronous body does not fail uses either
\* the supplied pair, having made no security group and no rule, or the pair
\* made by the resolver; a call that supplies the group without the rule
\* fails.
C8_PairSuppliedOrCreated ==
    SelfManaged =>
      /\ syncError = NoError =>
           \/ /\ args.nodeSecurityGroup # Undef /\ args.clusterIngressRule # Undef
              /\ pair = << args.nodeSecurityGroup, args.clusterIngressRule >>
              /\ registered \cap { "nodeSecurityGroup", "eksClusterIngressRule" } = {}
           \/ /\ args.nodeSecurityGroup = Undef
              /\ pair = << "nodeSecurityGroup", "eksClusterIngressRule" >>
              /\ { "nodeSecurityGroup", "eksClusterIngressRule" } \subseteq registered
      /\ (args.nodeSecurityGroup # Undef /\ args.clusterIngressRule = Undef)
           => syncError # NoError

\* An autoscaling group was created by the template-based provisioner with
\* the supplied pair.
C8_Witness ==
    /\ kind = "createNodeGroupV2"
    /\ syncError = NoError
    /\ args.nodeSecurityGroup # Undef
    /\ pair = << args.nodeSecurityGroup, args.clusterIngressRule >>
    /\ "asGroup" \in created

\* C9: a self-managed call that supplies nodeSecurityGroup on a core with
\* nodeSecurityGroupTags has failed once the callbacks on core have run.
C9_SecurityGroupWithTagsFails ==
    (SelfManaged /\ coreResolved /\ args.nodeSecurityGroup # Undef
       /\ core.nodeSecurityGroupTags)
      => (syncError # NoError \/ asyncErrors # {})

\* C10 as stated: every self-managed call with nodeRootVolumeIops set and a
\* volume type other than io1 fails, and so does every call with
\* nodeRootVolumeThroughput set and a volume type other than gp3.
C10_Original ==
    SelfManaged =>
      /\ (args.nodeRootVolumeIops # UndefNum /\ args.nodeRootVolumeType # "io1")
           => syncError # NoError
      /\ (args.nodeRootVolumeThroughput # UndefNum /\ args.nodeRootVolumeType # "gp3")
           => syncError # NoError

\* C10 amended: every self-managed call with a non-zero nodeRootVolumeIops
\* and a volume type other than io1 (an unset type included) fails, with the
\* IOPS conflict error unless an earlier check failed the call; every call
\* with a non-zero nodeRootVolumeThroughput and a volume type other than gp3
\* fails, with the throughput conflict error unless an earlier check did.
C10_NonZeroIopsOrThroughputConflictFails ==
    SelfManaged =>
      /\ (Truthy(args.nodeRootVolumeIops) /\ args.nodeRootVolumeType # "io1")
           => syncError \in EarlyErrors \cup { "IopsNonIo1" }
      /\ (Truthy(args.nodeRootVolumeThroughput) /\ args.nodeRootVolumeType # "gp3")
           => syncError \in EarlyErrors \cup { "IopsNonIo1", "IopsNotInteger", "ThroughputNonGp3" }

\* A call with IOPS and no volume type failed with the IOPS conflict error.
C10_Witness ==
    /\ SelfManaged
    /\ args.nodeRootVolumeType = Undef
    /\ syncError = "IopsNonIo1"

\* C5: computeWorkerSubnets returns exactly the candidates classified
\* private when there is one, and all candidates when there is none.
C5_PrivateSubsetOrAll ==
    stage = "returned" =>
      LET private == { log[i].subnetId : i \in { j \in 1..Len(log) : log[j].class = "private" } }
      IN  Range(result) = IF private # {} THEN private ELSE Range(subnetIds)

\* The call returned after classifying one candidate public and another
\* private.
C5_Witness ==
    /\ stage = "returned"
    /\ \E i, j \in 1..Len(log) :
         /\ log[i].class = "private" /\ log[j].class = "public"
         /\ log[i].subnetId # log[j].subnetId

\* C6: a candidate is classified public if and only if its route table has a
\* route to an internet gateway whose destination is outside the reserved
\* private ranges.
C6_PublicIffInternetGatewayRoute ==
    done > 0 =>
      ( log[done].class = "public"
          <=> \E i \in 1..Len(routeTable) :
                /\ routeTable[i].gatewayId \in InternetGateways
                /\ ~isPrivateCIDRBlock(routeTable[i].cidrBlock) )

\* C7: no candidate is classified after its route-table lookup failed, and
\* the main route table is looked up only for a candidate that has no
\* explicit association.
C7_LookupFailurePropagated ==
    /\ \A i \in 1..Len(log) : log[i].caught # "error"
    /\ stage \in { "getSubnet", "getRouteTables", "getMainRouteTable" }
         => caught = "noAssociation"

\* C11: a self-managed call that selects the io1 volume type without
\* nodeRootVolumeIops fails, and so does one that selects gp3 without
\* nodeRootVolumeThroughput.
C11_CapableTypeWithoutValueFails ==
    SelfManaged =>
      /\ (args.nodeRootVolumeType = "io1" /\ args.nodeRootVolumeIops = UndefNum)
           => syncError # NoError
      /\ (args.nodeRootVolumeType = "gp3" /\ args.nodeRootVolumeThroughput = UndefNum)
           => syncError # NoError

\* C12: with the io1 volume type and an integral nodeRootVolumeIops the
\* root-volume validation passes, and so it does with gp3 and an integral
\* nodeRootVolumeThroughput (every number of the model is an integer).
C12_IntegerValuePasses ==
    SelfManaged =>
      /\ (args.nodeRootVolumeType = "io1" /\ Truthy(args.nodeRootVolumeIops))
           => syncError # "IopsNotInteger"
      /\ (args.nodeRootVolumeType = "gp3" /\ Truthy(args.nodeRootVolumeThroughput))
           => syncError # "ThroughputNotInteger"

\* C14: a self-managed call that supplies both nodePublicKey and keyName
\* fails with the key conflict error, whatever the other options and the
\* cluster core are.
C14_KeyConflictAlwaysFails ==
    (SelfManaged /\ args.nodePublicKey /\ args.keyName) => syncError = "KeyConflict"

\* A call with both keys whose third option would fail another check of the
\* synchronous body, or the instance-profile callback, failed with the key
\* conflict error.
C14_Witness ==
    /\ SelfManaged
    /\ args.nodePublicKey /\ args.keyName
    /\ \/ Truthy(args.nodeRootVolumeIops)
       \/ args.gpu
       \/ ~core.instanceProfile
    /\ syncError = "KeyConflict"

\* The options that nodeUserDataOverride excludes.
ComposedOptions(a) ==
    a.nodeUserData \/ a.labels \/ a.taints \/ a.kubeletExtraArgs \/ a.bootstrapExtraArgs

\* C13: a self-managed call that combines nodeUserDataOverride with
\* nodeUserData, labels, taints, kubeletExtraArgs or bootstrapExtraArgs fails
\* in its synchronous body, having registered neither the callback that
\* composes the user data nor any resource; an override without any of the
\* five never raises the override conflict, and an override that is the only
\* option given is accepted.
C13_OverrideExcludesComposition ==
    SelfManaged =>
      /\ (args.nodeUserDataOverride /\ ComposedOptions(args))
           => /\ syncError \in { "KeyConflict", "AmiGpuConflict", "UserDataOverrideConflict" }
              /\ outputs["userdata"] = "none"
              /\ registered = {}
      /\ (args.nodeUserDataOverride /\ ~ComposedOptions(args))
           => syncError # "UserDataOverrideConflict"
      /\ args = [ NoArgs EXCEPT !.nodeUserDataOverride = TRUE ]
           => /\ syncError = NoError
              /\ registered \cap { "nodeLaunchConfiguration", "nodeLaunchTemplate" } # {}

\* A call with an override and labels failed with the override conflict.
C13_Witness ==
    /\ SelfManaged
    /\ args.nodeUserDataOverride /\ args.labels
    /\ syncError = "UserDataOverrideConflict"

\* C15: in a self-managed call the instance profile handed to the launch
\* configuration (its ARN, to the launch template) is the one of the options
\* when given, otherwise the default of the core; when neither is present the
\* callback fails once core has resolved and no launch configuration, launch
\* template, stack or autoscaling group is ever created.
C15_InstanceProfileResolved ==
    SelfManaged =>
      /\ (~args.instanceProfile /\ ~core.instanceProfile)
           => /\ created \cap FleetResources = {}
              /\ coreResolved => "InstanceProfileRequired" \in asyncErrors
              /\ \A in \in inputs : in[1] \notin { "iamInstanceProfile", "iamInstanceProfile.arn" }
      /\ created \cap FleetResources # {}
           => /\ args.instanceProfile \/ core.instanceProfile
              /\ \E in \in inputs : in[1] \in { "iamInstanceProfile", "iamInstanceProfile.arn" }
      /\ \A in \in inputs :
           /\ in[1] = "iamInstanceProfile"
                => in[2] = IF args.instanceProfile THEN "args.instanceProfile"
                           ELSE "core.nodeGroupOptions.instanceProfile"
           /\ in[1] = "iamInstanceProfile.arn"
                => in[2] = IF args.instanceProfile THEN "args.instanceProfile.arn"
                           ELSE "core.nodeGroupOptions.instanceProfile.arn"

\* A launch configuration was created with the instance profile of the
\* options on a core that has no default.
C15_Witness ==
    /\ kind = "createNodeGroup"
    /\ args.instanceProfile /\ ~core.instanceProfile
    /\ "nodeLaunchConfiguration" \in created
    /\ << "iamInstanceProfile", "args.instanceProfile" >> \in inputs

\* C16: createManagedNodeGroup fails when neither nodeRole nor nodeRoleArn
\* is supplied and when both are; with exactly one supplied the call
\* registers the node group with that nodeRoleArn, or with the ARN of that
\* nodeRole, as its role ARN.
C16_ExactlyOneRole ==
    kind = "createManagedNodeGroup" =>
      /\ (args.nodeRole = Undef /\ args.nodeRoleArn = Undef)
           => syncError = "RoleRequired" /\ registered = {}
      /\ (args.nodeRole # Undef /\ args.nodeRoleArn # Undef)
           => syncError = "RoleConflict" /\ registered = {}
      /\ ((args.nodeRole = Undef) # (args.nodeRoleArn = Undef))
           => /\ syncError = NoError
              /\ "nodeGroup" \in registered
              /\ { in \in inputs : in[1] = "nodeRoleArn" } =
                   { << "nodeRoleArn", IF args.nodeRoleArn # Undef THEN args.nodeRoleArn
                                       ELSE RoleArnOf(args.nodeRole) >> }

\* A managed node group was created with the ARN of the supplied role
\* object.
C16_Witness ==
    /\ kind = "createManagedNodeGroup"
    /\ args.nodeRole = "roleB" /\ args.nodeRoleArn = Undef
    /\ << "nodeRoleArn", "arnB" >> \in inputs
    /\ "nodeGroup" \in created

\* s begins with prefix.
StartsWith(s, prefix) ==
    Len(prefix) <= Len(s) /\ SubSeq(s, 1, Len(prefix)) = prefix

\* s ends with suffix.
EndsWith(s, suffix) ==
    Len(suffix) <= Len(s) /\ SubSeq(s, Len(s) - Len(suffix) + 1, Len(s)) = suffix

\* The positions at which sub occurs in s.
Occurrences(s, sub) ==
    { i \in 1..(Len(s) - Len(sub) + 1) :
        s[i] = sub[1] /\ SubSeq(s, i, i + Len(sub) - 1) = sub }

Contains(s, sub) == Occurrences(s, sub) # {}

\* The position of the first occurrence of sub in s, 0 when there is none.
IndexOf(s, sub) ==
    IF Contains(s, sub)
      THEN CHOOSE i \in Occurrences(s, sub) : \A j \in Occurrences(s, sub) : i <= j
      ELSE 0

\* The value of a base64 digit; the padding character counts as zero.
Base64Digit(ch) ==
    IF ch >= 65 /\ ch <= 90 THEN ch - 65
    ELSE IF ch >= 97 /\ ch <= 122 THEN ch - 71
    ELSE IF ch >= 48 /\ ch <= 57 THEN ch + 4
    ELSE IF ch = 43 THEN 62
    ELSE IF ch = 47 THEN 63
    ELSE 0

\* What a reader of base64 text, such as the instance reading the user data
\* of its launch template, decodes.
Base64Decode(text) ==
    LET n == Len(text)
        padding == Cardinality({ i \in 1..n : text[i] = Base64Pad[1] })
        v(g) == Base64Digit(text[4 * g - 3]) * 262144 + Base64Digit(text[4 * g - 2]) * 4096
                  + Base64Digit(text[4 * g - 1]) * 64 + Base64Digit(text[4 * g])
    IN  [ i \in 1..(3 * (n \div 4) - padding) |->
            (v((i + 2) \div 3) \div (256 ^ (2 - ((i - 1) % 3)))) % 256 ]

\* C17: the bootstrap flags are the explicit bootstrapExtraArgs, when given,
\* preceded by a space, followed by: nothing when the kubelet token list is
\* empty; the --kubelet-extra-args flag and the token, unquoted, when there
\* is exactly one token; the flag and all tokens joined by single spaces
\* inside one pair of single quotes when there are two or more.
C17_KubeletFlagFollowsTokenCount ==
    provisioner # "none" =>
      LET explicit == IF options.bootstrapExtraArgs.given
                         /\ options.bootstrapExtraArgs.value # << >>
                        THEN Text.space \o options.bootstrapExtraArgs.value ELSE << >>
          n == Len(kubeletTokens)
      IN  /\ n = 0 => /\ bootstrapFlags = explicit
                      /\ ~Contains(bootstrapFlags, Text.kubeletExtraArgsFlag)
          /\ n = 1 => bootstrapFlags = explicit \o Text.kubeletExtraArgsFlag \o kubeletTokens[1]
          /\ n >= 2 => bootstrapFlags =
                         explicit \o Text.kubeletExtraArgsFlag \o Text.quote
                           \o join(kubeletTokens, Text.space) \o Text.quote

\* The template-based provisioner composed the flag for a single token after
\* explicit bootstrap arguments.
C17_Witness ==
    /\ provisioner = "createNodeGroupV2"
    /\ Len(kubeletTokens) = 1
    /\ options.bootstrapExtraArgs.value # << >>
    /\ Contains(bootstrapFlags, Text.kubeletExtraArgsFlag)

\* C18 as stated: no token of the kubelet token list is empty.
C18_Original ==
    provisioner # "none" => \A i \in 1..Len(kubeletTokens) : kubeletTokens[i] # << >>

\* C18 amended: the kubelet token list is the pieces of kubeletExtraArgs
\* between its space characters (one more piece than there are spaces, empty
\* pieces included, none when the string is absent or empty), then, only if
\* labels is non-empty, one --node-labels= token listing key=value in
\* mapping order, then, only if taints is non-empty, one
\* --register-with-taints= token listing key=value:effect in mapping order.
C18_TokensSplitAtEverySpace ==
    provisioner # "none" =>
      LET text   == options.kubeletExtraArgs.value
          spaces == Cardinality({ i \in 1..Len(text) : text[i] = Text.space[1] })
          k == IF options.kubeletExtraArgs.given /\ text # << >> THEN spaces + 1 ELSE 0
          l == IF options.labels.given /\ options.labels.value # << >> THEN 1 ELSE 0
          t == IF options.taints.given /\ options.taints.value # << >> THEN 1 ELSE 0
          labels == options.labels.value
          taints == options.taints.value
      IN  /\ Len(kubeletTokens) = k + l + t
          /\ k > 0 => /\ join(SubSeq(kubeletTokens, 1, k), Text.space) = text
                      /\ \A i \in 1..k : ~Contains(kubeletTokens[i], Text.space)
          /\ l = 1 => kubeletTokens[k + 1] =
                        Text.nodeLabelsFlag
                          \o join([ i \in 1..Len(labels) |->
                                      labels[i][1] \o Text.equals \o labels[i][2] ], Text.comma)
          /\ t = 1 => kubeletTokens[k + l + 1] =
                        Text.registerWithTaintsFlag
                          \o join([ i \in 1..Len(taints) |->
                                      taints[i][1] \o Text.equals \o taints[i][2].value
                                        \o Text.colon \o taints[i][2].effect ], Text.comma)

\* A token list with an empty token, a labels token and a taints token.
C18_Witness ==
    /\ provisioner # "none"
    /\ \E i \in 1..Len(kubeletTokens) : kubeletTokens[i] = << >>
    /\ options.labels.given /\ Len(options.labels.value) = 2
    /\ options.taints.given /\ Len(options.taints.value) = 2
    /\ Len(kubeletTokens) >= 4

\* C19 as stated: when nodeUserDataOverride is present, the userData
\* property of the launch configuration and of the launch template is the
\* override itself.
C19_Original ==
    (provisioner # "none" /\ options.nodeUserDataOverride.given)
      => userData = options.nodeUserDataOverride.value

\* C19 amended: when nodeUserDataOverride is present and not empty, nothing
\* is composed around it: the launch configuration is given the override
\* itself, the launch template the base64 encoding of the override.
C19_OverrideNotComposed ==
    (provisioner # "none" /\ options.nodeUserDataOverride.given
       /\ options.nodeUserDataOverride.value # << >>)
      => /\ provisioner = "createNodeGroup"
              => userData = options.nodeUserDataOverride.value
         /\ provisioner = "createNodeGroupV2"
              => /\ Base64Decode(userData) = options.nodeUserDataOverride.value
                 /\ userData = Base64(options.nodeUserDataOverride.value)
                 /\ userData # options.nodeUserDataOverride.value

\* The template-based provisioner was given an override.
C19_Witness ==
    /\ provisioner = "createNodeGroupV2"
    /\ options.nodeUserDataOverride.given
    /\ options.nodeUserDataOverride.value # << >>
    /\ userData # << >>

\* C20: without an override, the user data of the legacy
\* provisioner starts with the interpreter directive and ends with the
\* cfn-signal line for its own stack, which is the only cfn-signal in it and
\* comes after the bootstrap invocation and after the custom user data; the
\* user data of the template-based provisioner is the base64 encoding of a
\* script that starts with the interpreter directive, invokes the bootstrap
\* and contains no cfn-signal.
C20_SignalOnlyInLegacyScript ==
    (provisioner # "none" /\ ~options.nodeUserDataOverride.given)
      => /\ provisioner = "createNodeGroup" =>
              LET signal == Text.cfnSignalCommand \o Deployment.cfnStackName \o Text.cfnSignalResource
                              \o Deployment.regionName \o Text.newline
                  iB == IndexOf(userData, Text.bootstrapName)
                  iU == IndexOf(userData, Text.hereDocOpen)
                  iS == IndexOf(userData, Text.cfnSignalName)
              IN  /\ StartsWith(userData, Text.shebang)
                  /\ EndsWith(userData, signal)
                  /\ Cardinality(Occurrences(userData, Text.cfnSignalName)) = 1
                  /\ 0 < iB /\ iB < iS
                  /\ (options.nodeUserData.given /\ options.nodeUserData.value # << >>)
                       => (iB < iU /\ iU < iS)
         /\ provisioner = "createNodeGroupV2" =>
              LET script == Base64Decode(userData)
              IN  /\ Base64(script) = userData
                  /\ Range(userData) \subseteq Range(Base64Alphabet) \cup Range(Base64Pad)
                  /\ StartsWith(script, Text.shebang)
                  /\ Contains(script, Text.bootstrapName)
                  /\ ~Contains(script, Text.cfnSignalName)
                  /\ (options.nodeUserData.given /\ options.nodeUserData.value # << >>)
                       => IndexOf(script, Text.bootstrapName) < IndexOf(script, Text.hereDocOpen)

\* The legacy provisioner composed a script around custom user data.
C20_Witness ==
    /\ provisioner = "createNodeGroup"
    /\ ~options.nodeUserDataOverride.given
    /\ options.nodeUserData.given /\ options.nodeUserData.value # << >>
    /\ Contains(userData, Text.hereDocOpen)

\* C21: in createNodeGroup and createNodeGroupV2 the worker subnets handed
\* to the fleet are the first defined of: nodeSubnetIds of the options,
\* privateSubnetIds of the cluster, publicSubnetIds of the cluster, and, when
\* none of these is defined, the result of computeWorkerSubnets; the
\* classifier runs only when none of the three is defined.
C21_WorkerSubnetsFirstDefined ==
    kind \in {"createNodeGroup", "createNodeGroupV2"} =>
      LET chosen == { p[2] : p \in { q \in inputs :
                                       q[1] \in {"VPCZoneIdentifier", "vpcZoneIdentifiers"} } }
          expected == IF args.nodeSubnetIds THEN "nodeSubnetIds"
                      ELSE IF core.privateSubnetIds THEN "privateSubnetIds"
                      ELSE IF core.publicSubnetIds THEN "publicSubnetIds"
                      ELSE "computeWorkerSubnets"
      IN  /\ chosen \subseteq { expected }
          /\ (outputs["workerSubnetIds"] = "computing" \/ "LookupFailure" \in asyncErrors)
               => (~args.nodeSubnetIds /\ ~core.privateSubnetIds /\ ~core.publicSubnetIds)
          /\ outputs["workerSubnetIds"] = "ok" => chosen = { expected }

\* The cluster defines both its private and its public subnets, the options
\* name none: the private subnets were handed to the fleet.
C21_Witness ==
    /\ kind = "createNodeGroup"
    /\ ~args.nodeSubnetIds /\ core.privateSubnetIds /\ core.publicSubnetIds
    /\ << "VPCZoneIdentifier", "privateSubnetIds" >> \in inputs

\* C24: in createManagedNodeGroup the subnets handed to the node group are
\* the first defined of: subnetIds of the options, subnetIds of the cluster,
\* privateSubnetIds of the cluster, publicSubnetIds of the cluster, and the
\* empty list when none is defined; the classifier never runs.
C24_ManagedSubnetsFirstDefined ==
    kind = "createManagedNodeGroup" =>
      LET chosen == { p[2] : p \in { q \in inputs : q[1] = "subnetIds" } }
          expected == IF args.subnetIds THEN "args.subnetIds"
                      ELSE IF core.subnetIds THEN "core.subnetIds"
                      ELSE IF core.privateSubnetIds THEN "privateSubnetIds"
                      ELSE IF core.publicSubnetIds THEN "publicSubnetIds"
                      ELSE "[]"
      IN  /\ chosen \subseteq { expected }
          /\ outputs["subnetIds"] = "ok" => chosen = { expected }
          /\ outputs["workerSubnetIds"] = "none"
          /\ "LookupFailure" \notin asyncErrors

\* The cluster defines its general and its private subnets, the options name
\* none: the general subnets were handed to the node group.
C24_Witness ==
    /\ kind = "createManagedNodeGroup"
    /\ ~args.subnetIds /\ core.subnetIds /\ core.privateSubnetIds
    /\ << "subnetIds", "core.subnetIds" >> \in inputs
    /\ "nodeGroup" \in created

\* The call of a self-managed provisioner whose results are held in resolved
\* ran to its end.
SelfManagedResolved ==
    /\ resolved.provisioner \in {"createNodeGroup", "createNodeGroupV2"}
    /\ resolved.error = NoError

\* C22: when no amiId is given, the family in the path of the image
\* parameter is the amiType of the options if one is given, else the GPU
\* family if the gpu flag is set and the standard family if not; the version
\* in the path is the version of the options when given, else the version of
\* the cluster.
C22_ImageParameterFamily ==
    (SelfManagedResolved /\ resolved.args.amiId = Undef) =>
      LET path == resolved.amiId.parameter
      IN  /\ path[6] = IF resolved.args.amiType \notin {Undef, ""} THEN resolved.args.amiType
                       ELSE IF resolved.args.gpu THEN "amazon-linux-2-gpu"
                       ELSE "amazon-linux-2"
          /\ path[5] = IF resolved.args.version \notin {Undef, ""}
                         THEN resolved.args.version ELSE core.version

\* C23: in createNodeGroup and createNodeGroupV2 each capacity bound that is
\* not supplied takes its default (desiredCapacity 2, minSize 1, maxSize 2)
\* whatever the other bounds are, and each supplied bound, 0 included, is
\* used as supplied; the rolling update of the legacy stack keeps 0
\* instances in service when a spot price is given and 1 otherwise, in
\* batches of 1.
C23_CapacityDefaults ==
    SelfManagedResolved =>
      LET a == resolved.args
          expected(bound, default) == IF bound = UndefNum THEN default ELSE bound
          spot == a.spotPrice # Undef /\ a.spotPrice # ""
      IN  /\ resolved.provisioner = "createNodeGroup" =>
                resolved.capacity =
                  [ DesiredCapacity       |-> toString(expected(a.desiredCapacity, 2)),
                    MinSize               |-> toString(expected(a.minSize, 1)),
                    MaxSize               |-> toString(expected(a.maxSize, 2)),
                    MinInstancesInService |-> IF spot THEN << "0" >> ELSE << "1" >>,
                    MaxBatchSize          |-> << "1" >> ]
          /\ resolved.provisioner = "createNodeGroupV2" =>
                resolved.capacity =
                  [ desiredCapacity |-> expected(a.desiredCapacity, 2),
                    minSize         |-> expected(a.minSize, 1),
                    maxSize         |-> expected(a.maxSize, 2) ]

\* The template-based provisioner was given a minSize of 0 and no other
\* bound.
C23_Witness ==
    /\ resolved.provisioner = "createNodeGroupV2"
    /\ resolved.error = NoError
    /\ resolved.args.minSize = 0 /\ resolved.args.maxSize = UndefNum
    /\ resolved.capacity.minSize = 0 /\ resolved.capacity.maxSize = 2

\* C25: in createManagedNodeGroup each field of the scaling configuration
\* that is not supplied takes its default (desiredSize 2, minSize 1,
\* maxSize 2), whether scalingConfig is absent or partly filled, and each
\* supplied field, 0 included, is used as supplied.
C25_ScalingConfigDefaults ==
    resolved.provisioner = "createManagedNodeGroup" =>
      LET config == resolved.args.scalingConfig
          expected(field, default) ==
            IF ~config.given THEN default
            ELSE IF config.value[field] = UndefNum THEN default ELSE config.value[field]
      IN  resolved.scalingConfig =
            [ desiredSize |-> expected("desiredSize", 2),
              minSize     |-> expected("minSize", 1),
              maxSize     |-> expected("maxSize", 2) ]

\* A scaling configuration that supplies only a minSize of 0.
C25_Witness ==
    /\ resolved.provisioner = "createManagedNodeGroup"
    /\ resolved.args.scalingConfig.given
    /\ resolved.args.scalingConfig.value =
         [ desiredSize |-> UndefNum, minSize |-> 0, maxSize |-> UndefNum ]
    /\ resolved.scalingConfig = [ desiredSize |-> 2, minSize |-> 0, maxSize |-> 2 ]

\* C26: no call changes the cluster core, and a call changes the options
\* object of its caller only in createNodeGroup, and there only by giving
\* desiredCapacity, minSize or maxSize a value where it had none;
\* createNodeGroupV2 and createManagedNodeGroup leave the object as it was,
\* its cluster field included.
C26_OnlyLegacyBackFill ==
    [][ /\ core' = core
        /\ callerArgs' # callerArgs =>
             /\ resolved'.provisioner = "createNodeGroup"
             /\ \A field \in DOMAIN callerArgs :
                  callerArgs'[field] # callerArgs[field] =>
                    /\ field \in {"desiredCapacity", "minSize", "maxSize"}
                    /\ callerArgs[field] = UndefNum ]_vars

\* The managed provisioner was called on an options object that the legacy
\* provisioner had back-filled before: the object kept its cluster and its
\* supplied minSize of 0, and only the copy handed to the node group lost the
\* cluster.
C26_Witness ==
    /\ resolved.provisioner = "createManagedNodeGroup"
    /\ callerArgs.cluster = "cluster"
    /\ callerArgs.minSize = 0
    /\ callerArgs.desiredCapacity = 2 /\ callerArgs.maxSize = 2
    /\ resolved.nodeGroupArgs.cluster = Undef

\* C27: once the outputs of the stack are available, autoScalingGroupName
\* is the value of their key NodeGroup; when they have no such key,
\* resolving it fails with the stack-not-ready error and yields no name.  A
\* resolved name is never undefined or empty.
C27_NameFromStackOutput ==
    (resolved.provisioner = "createNodeGroup" /\ resolved.error = NoError) =>
      LET asgName == resolved.autoScalingGroupName
          outs == resolved.outputs
      IN  IF ~asgName.known THEN asgName.value = Undef /\ asgName.error = NoError
          ELSE /\ "NodeGroup" \in DOMAIN outs =>
                    (asgName.error = NoError /\ asgName.value = outs["NodeGroup"])
               /\ "NodeGroup" \notin DOMAIN outs =>
                    (asgName.error = "StackNotReady" /\ asgName.value = Undef)
               /\ asgName.error = NoError => asgName.value \notin {Undef, ""}

\* The stack reported outputs without the key NodeGroup.
C27_Witness ==
    /\ resolved.provisioner = "createNodeGroup"
    /\ resolved.autoScalingGroupName.known
    /\ DOMAIN resolved.outputs = {"LaunchConfiguration"}
    /\ resolved.autoScalingGroupName.error = "StackNotReady"

\* C28: a NodeGroup or NodeGroupV2 component constructed with
\* extraNodeSecurityGroups has that list as its extraNodeSecurityGroups
\* property, as the data returned by the provisioner has.
C28_ComponentExposesExtraGroups ==
    (SelfManagedResolved /\ resolved.args.extraNodeSecurityGroups.given) =>
      /\ resolved.group.extraNodeSecurityGroups = resolved.args.extraNodeSecurityGroups
      /\ resolved.component.extraNodeSecurityGroups = resolved.args.extraNodeSecurityGroups

\* s is a sub-list of t: the elements of s are elements of t, taken in the
\* order of t.
IsSubList(s, t) ==
    \E f \in [ 1..Len(s) -> 1..Len(t) ] :
        /\ \A i \in 1..Len(s) : t[f[i]] = s[i]
        /\ \A i, j \in 1..Len(s) : i < j => f[i] < f[j]

\* The candidates classified so far are the first ones of the list, each
\* classified once; a lookup in flight is for the next candidate; a call
\* that returned classified every candidate and returned a sub-list of them
\* that is empty only when there is no candidate.
SequentialClassification ==
    /\ Len(log) = done
    /\ done <= Len(subnetIds)
    /\ \A i \in 1..done : log[i].subnetId = subnetIds[i]
    /\ Len(publicSubnets) + Len(privateSubnets) = done
    /\ stage \in { "getRouteTable", "getSubnet", "getRouteTables", "getMainRouteTable" }
         => done < Len(subnetIds)
    /\ stage = "returned"
         => /\ done = Len(subnetIds)
            /\ IsSubList(result, subnetIds)
            /\ Len(result) = 0 => Len(subnetIds) = 0

\* C30: computeWorkerSubnets resolves the route table of each candidate
\* once, one candidate at a time in input order, every call ends, and a call
\* that returns yields a sub-list of the candidates in their order, empty
\* only when there is no candidate.
C30_SequentialAndTerminates ==
    /\ []SequentialClassification
    /\ (stage # "idle") ~> (stage \in { "returned", "failed" })

\* The call returned the second of two candidates only: the first was
\* classified public, the second private after a fallback to the main route
\* table.
C30_Witness ==
    /\ stage = "returned"
    /\ Len(subnetIds) = 2
    /\ result = << subnetIds[2] >>
    /\ log[1].class = "public"
    /\ log[2].caught = "noAssociation"

\* Over every cluster core and option set: both self-managed provisioners
\* end their synchronous checks with the same outcome, every check gives the
\* same verdict in both, and both choose the same worker subnets and wait on
\* the same security group ids.  It depends on no state: it is evaluated
\* where no call has been made yet.
ProvisionersAgree ==
    /\ \A cfg \in Configs :
         LET a == cfg.args
             c == cfg.core
             legacy == Run(createNodeGroupInternal(a))
             template == Run(createNodeGroupV2Internal(a))
         IN  /\ legacy.error = template.error
             /\ instanceProfileMissing(a, c) = instanceProfileMissingV2(a, c)
             /\ nodeSecurityGroupTagsConflict(a, c) = nodeSecurityGroupTagsConflictV2(a, c)
             /\ keyConflict(a) = keyConflictV2(a)
             /\ amiGpuConflict(a) = amiGpuConflictV2(a)
             /\ userDataOverrideConflict(a) = userDataOverrideConflictV2(a)
             /\ clusterIngressRuleMissing(a) = clusterIngressRuleMissingV2(a)
             /\ iopsNonIo1(a) = iopsNonIo1V2(a)
             /\ iopsNotInteger(a) = iopsNotIntegerV2(a)
             /\ throughputNonGp3(a) = throughputNonGp3V2(a)
             /\ throughputNotInteger(a) = throughputNotIntegerV2(a)
             /\ workerSubnetIds(a, c) = workerSubnetIdsV2(a, c)
             /\ legacy.pair = template.pair
             /\ nodeSecurityGroupId(legacy.pair) = nodeSecurityGroupIdV2(template.pair)
    /\ \A a \in Options : extraNodeSecurityGroupIds(a) = extraNodeSecurityGroupIdsV2(a)

\* C29 as stated: both provisioners agree on every check, on the bootstrap
\* arguments, on the worker subnets and on the security group ids, and the
\* legacy script is the decoded script of the template-based provisioner,
\* followed or not by the cfn-signal line.
C29_Original ==
    /\ provisioner = "none" => ProvisionersAgree
    /\ provisioner # "none" =>
         LET legacy == launchConfigurationUserData(options)
             template == Base64Decode(launchTemplateUserData(options))
         IN  /\ bootstrapExtraArgs(options) = bootstrapExtraArgsV2(options)
             /\ \/ legacy = template
                \/ legacy = template \o cfnSignal(Deployment.cfnStackName)

\* C29 amended: both provisioners agree on every check, on the kubelet
\* tokens and the bootstrap arguments, on the worker subnets and on the
\* security group ids.  With a non-empty override both scripts are the
\* override.  Otherwise the scripts have the same lines up to the custom
\* user data; the here-document that wraps nodeUserData is delimited by the
\* name of the stack in the legacy script and by the name of the node group
\* in the other; the legacy script alone ends with the cfn-signal line.  The
\* template-based provisioner hands over the base64 encoding of its script.
C29_ScriptsAgreeUpToNames ==
    /\ provisioner = "none" => ProvisionersAgree
    /\ provisioner # "none" =>
         LET legacy == IF provisioner = "createNodeGroup" THEN userData
                       ELSE launchConfigurationUserData(options)
             template == scriptV2(options)
             custom == customUserData(options, Deployment.cfnStackName)
             customV2 == customUserData(options, Deployment.name)
             n == Len(template) - Len(customV2) - 1
         IN  /\ kubeletTokens = kubeletExtraArgs(options)
             /\ kubeletTokens = kubeletExtraArgsV2(options)
             /\ bootstrapFlags = bootstrapExtraArgs(options)
             /\ bootstrapFlags = bootstrapExtraArgsV2(options)
             /\ provisioner = "createNodeGroupV2" => userData = Base64(template)
             /\ IF TruthyString(options.nodeUserDataOverride)
                  THEN /\ legacy = options.nodeUserDataOverride.value
                       /\ template = options.nodeUserDataOverride.value
                  ELSE /\ n >= 0
                       /\ template = SubSeq(template, 1, n) \o customV2 \o Text.newline
                       /\ legacy = SubSeq(template, 1, n) \o custom \o Text.newline
                                     \o cfnSignal(Deployment.cfnStackName)
                       /\ custom = customV2 <=> ~TruthyString(options.nodeUserData)

\* The template-based provisioner wrapped custom user data in a
\* here-document after composing two kubelet tokens from one string.
C29_Witness ==
    /\ provisioner = "createNodeGroupV2"
    /\ ~options.nodeUserDataOverride.given
    /\ TruthyString(options.nodeUserData)
    /\ TruthyString(options.kubeletExtraArgs)
    /\ Len(kubeletTokens) = 2
    /\ Contains(Base64Decode(userData), Deployment.name \o Text.hereDocTag)

====
